---- MODULE Spec2Model ----
(***************************************************************************)
(* A model of the segmentation and enrichment pipeline of vector-pdf:      *)
(* the smart batcher, the embedding cache, the embedding dispatch, the     *)
(* token based chunker, the adaptive chunker, the section detector and     *)
(* the segment rewriting stages.  Each component has its own variables     *)
(* and its own specification; a specification leaves the variables of the  *)
(* other components at their idle values.                                  *)
(*                                                                         *)
(* Texts are sequences of one-character strings.  The tokenizer (tiktoken) *)
(* is outside the repository: it is modelled by a fixed-width tokenizer    *)
(* that cuts a text into tokens of TokenWidth characters, so that a token  *)
(* count differs from a character count.                                   *)
(***************************************************************************)
EXTENDS Integers, Sequences, FiniteSets, TLC

VARIABLES
    \* SmartBatcher
    max_tokens_per_batch, sb_chunks, sb_batches, sb_pc,
    \* EmbeddingCache: the setting, the files of the cache directory, the
    \* last call of get, and two history variables: the vector last written
    \* for each pair, and the pairs whose entry a get has purged
    embedding_cache_enabled, cache_files, cache_last_get, cache_written,
    cache_purged,
    \* create_embeddings / embed_chunks: the texts and batch size of the call
    \* in progress, the state of each create_embeddings invocation, the
    \* returned list, and how often the service computed each text's vector
    emb_texts, emb_batch_size, emb_calls, emb_result, emb_pc, api_computed,
    \* the batch named by the error the last call raised
    emb_error,
    \* TokenBasedChunker: its configuration, the arguments of
    \* rechunk_with_tokens, the position of its loop, its result, and the
    \* locals of the chunk_text call in progress (ct_turn: the parity of the
    \* number of turns its loop has taken)
    chunk_size_tokens, chunk_overlap_tokens, max_tokens_per_chunk, tb_chunks,
    tb_k, rechunked, tb_pc, ct_tokens, ct_i, ct_chunks, ct_turn,
    \* SectionDetector: the document handed to parse_document, self.sections
    sd_text, sections, sd_pc,
    \* AdaptiveChunker: the text and content type of one chunk_text call, the
    \* pieces it returns
    ac_text, ac_type, ac_pieces, ac_pc,
    \* the segments of one document on their way through the stages: the raw
    \* pieces, the section found for them, the segment list, the stages run
    \* so far, and the settings of the augmenter and the merger that ran
    st_pieces, st_section, st_chunks, st_stages, st_pc, st_augmenter, st_merger,
    \* ChunkQualityFilter: its settings, the list handed to filter_chunks, the
    \* threshold, the two lists returned, the value score_chunk returned
    qf_filter, qf_chunks, min_quality, kept_chunks, filtered_chunks, qf_score, qf_pc,
    \* SemanticChunker: its two sizes, the text handed to chunk_by_sections
    \* and the (title, content) pairs it returns
    sc_min_chunk_size, sc_max_chunk_size, sc_text, sc_chunks, sc_pc,
    \* the segments annotated with their section and the later stages run on
    \* them: the segments, the stages run, the position, the exception raised
    pr_chunks, pr_stages, pr_pc, pr_error,
    \* one cache file under concurrent workers: its text, the position of each
    \* worker's set, the value the last get returned, the vector of the set
    \* that finished last
    cc_file, cc_workers, cc_got, cc_last,
    \* process_all_markdown_files: the worker of each document, with its text,
    \* its position in process_markdown_file, its segments and its result
    mw_workers

sbVars == <<max_tokens_per_batch, sb_chunks, sb_batches, sb_pc>>
cacheVars == <<embedding_cache_enabled, cache_files, cache_last_get,
               cache_written, cache_purged>>

embVars == <<emb_texts, emb_batch_size, emb_calls, emb_result, emb_pc, api_computed,
             emb_error>>

tbVars == <<chunk_size_tokens, chunk_overlap_tokens, max_tokens_per_chunk, tb_chunks,
            tb_k, rechunked, tb_pc, ct_tokens, ct_i, ct_chunks, ct_turn>>

sdVars == <<sd_text, sections, sd_pc>>

acVars == <<ac_text, ac_type, ac_pieces, ac_pc>>

stVars == <<st_pieces, st_section, st_chunks, st_stages, st_pc, st_augmenter, st_merger>>

qfVars == <<qf_filter, qf_chunks, min_quality, kept_chunks, filtered_chunks, qf_score, qf_pc>>

scVars == <<sc_min_chunk_size, sc_max_chunk_size, sc_text, sc_chunks, sc_pc>>

prVars == <<pr_chunks, pr_stages, pr_pc, pr_error>>

ccVars == <<cc_file, cc_workers, cc_got, cc_last>>

mwVars == <<mw_workers>>

vars == <<sbVars, cacheVars, embVars, tbVars, sdVars, acVars, stVars, qfVars, scVars, prVars, ccVars, mwVars>>

(***************************************************************************)
(* Shared helpers                                                          *)
(***************************************************************************)
\* Python's None, and a value that is present: an optional value is a
\* sequence of length at most one
None == <<>>
Some(x) == <<x>>

Min(a, b) == IF a <= b THEN a ELSE b
Max(a, b) == IF a >= b THEN a ELSE b

\* All sequences over S of length 0..n
SeqsUpTo(S, n) == UNION {[1..k -> S] : k \in 0..n}

RECURSIVE Repeat(_, _)
\* Python's  c * n  for a one-character string c
Repeat(c, n) == IF n <= 0 THEN <<>> ELSE <<c>> \o Repeat(c, n - 1)

RECURSIVE Flatten(_)
\* The concatenation of a sequence of sequences
Flatten(ss) == IF ss = <<>> THEN <<>> ELSE Head(ss) \o Flatten(Tail(ss))

RECURSIVE SumSeq(_)
\* Python's sum() of a sequence of numbers
SumSeq(s) == IF s = <<>> THEN 0 ELSE Head(s) + SumSeq(Tail(s))

(***************************************************************************)
(* The tokenizer: self.encoding.encode / self.encoding.decode              *)
(***************************************************************************)
\* characters per token of the stand-in tokenizer
TokenWidth == 2

\* encoding.encode(text): the text cut into tokens of TokenWidth characters
Encode(text) ==
    [k \in 1..((Len(text) + TokenWidth - 1) \div TokenWidth) |->
        SubSeq(text, (k - 1) * TokenWidth + 1, Min(k * TokenWidth, Len(text)))]

\* encoding.decode(tokens): the characters of the tokens, in order
Decode(tokens) == Flatten(tokens)

(***************************************************************************)
(* SmartBatcher  (src/vectorization/smart_batching.py)                     *)
(***************************************************************************)
\* longest input list of the batcher
MaxChunks == 3
\* largest token count a segment carries in its metadata
MaxTokenCount == 3
\* longest content, in characters, of a segment handed to the batcher
MaxContentLen == 4

\* chunk.get('metadata', {}).get('token_count'), computed from the content
\* when absent (lines 56-58)
TokenCountOf(chunk) ==
    IF chunk.token_count = None THEN Len(Encode(chunk.content))
    ELSE chunk.token_count[1]

\* line 60: the computed count is stored in the chunk's metadata
WithTokenCount(chunk) == [chunk EXCEPT !.token_count = Some(TokenCountOf(chunk))]

\* mutant: the running sum is compared without the new segment's count
SmartBranchForgetsCount(token_count, current_tokens, ceiling) ==
    IF token_count > ceiling THEN "alone"
    ELSE IF current_tokens <= ceiling THEN "join"
    ELSE "flush"

\* mutant: a segment that fills the batch exactly starts a new batch
SmartBranchStrict(token_count, current_tokens, ceiling) ==
    IF token_count > ceiling THEN "alone"
    ELSE IF current_tokens + token_count < ceiling THEN "join"
    ELSE "flush"

\* the branch a chunk takes in the loop body (lines 63, 70, 74)
SmartBranch(token_count, current_tokens, ceiling) ==
    IF token_count > ceiling THEN "alone"
    ELSE IF current_tokens + token_count <= ceiling THEN "join"
    ELSE "flush"

RECURSIVE SmartLoop(_, _, _, _, _)
\* the for loop of create_smart_batches (lines 52-78) from position i on,
\* then the last batch (lines 81-82)
SmartLoop(chunks, i, batches, current_batch, current_tokens) ==
    IF i > Len(chunks)
    THEN IF current_batch # <<>> THEN Append(batches, current_batch) ELSE batches
    ELSE
        LET chunk == WithTokenCount(chunks[i])
            token_count == chunk.token_count[1]
            branch == SmartBranch(token_count, current_tokens, max_tokens_per_batch)
        IN  CASE branch = "alone" ->
                    SmartLoop(chunks, i + 1,
                        Append(IF current_batch # <<>>
                               THEN Append(batches, current_batch) ELSE batches,
                               <<chunk>>),
                        <<>>, 0)
              [] branch = "join" ->
                    SmartLoop(chunks, i + 1, batches,
                        Append(current_batch, chunk), current_tokens + token_count)
              [] OTHER ->
                    SmartLoop(chunks, i + 1,
                        IF current_batch # <<>>
                        THEN Append(batches, current_batch) ELSE batches,
                        <<chunk>>, token_count)

\* SmartBatcher.create_smart_batches(chunks)
SmartBatches(chunks) ==
    IF chunks = <<>> THEN <<>> ELSE SmartLoop(chunks, 1, <<>>, <<>>, 0)

\* a segment handed to the batcher: its content, its position in the input
\* and the token count of its metadata, if any
SbChunkShapes ==
    {[content |-> Repeat("a", n), token_count |-> None] : n \in 0..MaxContentLen}
    \cup {[content |-> <<"a">>, token_count |-> Some(t)] : t \in 0..MaxTokenCount}

SbInputs ==
    {[i \in 1..Len(s) |->
        [content |-> s[i].content, token_count |-> s[i].token_count, chunk_index |-> i]]
     : s \in SeqsUpTo(SbChunkShapes, MaxChunks)}

\* spec.md, scenario 4: token counts [100, 100, 900] under a ceiling of 200
Scenario4Chunks ==
    [i \in 1..3 |-> [content |-> <<"a">>, chunk_index |-> i,
                     token_count |-> Some(<<100, 100, 900>>[i])]]

SbInit ==
    /\ sb_pc = "ready"
    /\ sb_batches = <<>>
    /\ \/ /\ sb_chunks \in SbInputs
          /\ max_tokens_per_batch \in 0..MaxTokenCount
       \/ /\ sb_chunks = Scenario4Chunks
          /\ max_tokens_per_batch = 200

SbIdle ==
    /\ sb_pc = "idle"
    /\ sb_batches = <<>>
    /\ sb_chunks = <<>>
    /\ max_tokens_per_batch = 0

\* one call of create_smart_batches: the batches are returned and every
\* chunk of the input carries its token count afterwards
create_smart_batches ==
    /\ sb_pc = "ready"
    /\ sb_batches' = SmartBatches(sb_chunks)
    /\ sb_chunks' = [i \in 1..Len(sb_chunks) |-> WithTokenCount(sb_chunks[i])]
    /\ sb_pc' = "done"
    /\ UNCHANGED <<max_tokens_per_batch, cacheVars, embVars, tbVars, sdVars, acVars, stVars, qfVars, scVars, prVars, ccVars, mwVars>>

(***************************************************************************)
(* EmbeddingCache  (src/core/cache.py)                                     *)
(***************************************************************************)
\* number of distinct embedding vectors
NumVectors == 2

\* an embedding vector is identified by a number
Vectors == 1..NumVectors

\* model identifiers and segment texts; a model identifier may hold a colon
CacheModels == {<<"m">>, <<"m", ":", "x">>}
CacheTexts == {<<"x">>, <<"x", ":", "x">>}
CachePairs == CacheTexts \X CacheModels

\* _get_content_hash: the SHA-256 digest of f"{model}:{content}".  The
\* digest of a string is identified with the string (no two strings that
\* occur here share a digest).
ContentHash(content, model) == model \o <<":">> \o content

\* the hashes of all pairs, each naming one file (_get_cache_path)
CacheHashes == {ContentHash(p[1], p[2]) : p \in CachePairs}

\* values a stored field can be changed to from outside the program
TamperedModel == <<"t">>
TamperedHash == <<"#">>

\* what get does with the file it finds: "hit", "purge" (the entry records
\* another hash or model: unlink), "miss" (no file, or the cache is off), or
\* "error" (the file cannot be read as JSON: the exception is swallowed)
GetOutcome(files, enabled, content, model) ==
    LET content_hash == ContentHash(content, model)
    IN  IF ~enabled THEN "miss"
        ELSE IF files[content_hash] = None THEN "miss"
        ELSE LET data == files[content_hash][1]
             IN  IF ~data.readable THEN "error"
                 ELSE IF data.hash = content_hash /\ data.model = model THEN "hit"
                 ELSE "purge"

\* the value get returns (lines 71-94)
GetResult(files, enabled, content, model) ==
    IF GetOutcome(files, enabled, content, model) = "hit"
    THEN Some(files[ContentHash(content, model)][1].embedding)
    ELSE None

\* mutant: an entry that records another hash or model is left in place
GetFilesKeepsStale(files, enabled, content, model) == files

\* the files after get: the entry is unlinked when it records another hash
\* or model (line 90)
GetFiles(files, enabled, content, model) ==
    IF GetOutcome(files, enabled, content, model) = "purge"
    THEN [files EXCEPT ![ContentHash(content, model)] = None]
    ELSE files

\* the files after set (lines 105-120)
SetFiles(files, enabled, content, model, embedding) ==
    IF ~enabled THEN files
    ELSE [files EXCEPT ![ContentHash(content, model)] =
            Some([hash |-> ContentHash(content, model), model |-> model,
                  embedding |-> embedding, readable |-> TRUE])]

CacheInit ==
    /\ embedding_cache_enabled \in BOOLEAN
    /\ cache_files = [h \in CacheHashes |-> None]
    /\ cache_last_get = None
    /\ cache_written = [p \in CachePairs |-> None]
    /\ cache_purged = {}

CacheIdle ==
    /\ embedding_cache_enabled = TRUE
    /\ cache_files = [h \in CacheHashes |-> None]
    /\ cache_last_get = None
    /\ cache_written = [p \in CachePairs |-> None]
    /\ cache_purged = {}

\* EmbeddingCache.get(content, model)
cache_get ==
    \E content \in CacheTexts, model \in CacheModels :
        /\ cache_last_get' =
              Some([content |-> content, model |-> model,
                    outcome |-> GetOutcome(cache_files, embedding_cache_enabled,
                                           content, model),
                    result |-> GetResult(cache_files, embedding_cache_enabled,
                                         content, model)])
        /\ cache_files' = GetFiles(cache_files, embedding_cache_enabled, content, model)
        /\ cache_purged' =
              IF GetOutcome(cache_files, embedding_cache_enabled, content, model) = "purge"
              THEN cache_purged \cup {<<content, model>>}
              ELSE cache_purged
        /\ UNCHANGED <<embedding_cache_enabled, cache_written, sbVars, embVars, tbVars, sdVars, acVars, stVars, qfVars, scVars, prVars, ccVars, mwVars>>

\* EmbeddingCache.set(content, model, embedding)
cache_set ==
    \E content \in CacheTexts, model \in CacheModels, embedding \in Vectors :
        /\ cache_files' = SetFiles(cache_files, embedding_cache_enabled,
                                   content, model, embedding)
        /\ cache_written' = [cache_written EXCEPT ![<<content, model>>] = Some(embedding)]
        /\ cache_purged' = cache_purged \ {<<content, model>>}
        /\ cache_last_get' = None
        /\ UNCHANGED <<embedding_cache_enabled, sbVars, embVars, tbVars, sdVars, acVars, stVars, qfVars, scVars, prVars, ccVars, mwVars>>

\* EmbeddingCache.clear(): the cache directory is removed and recreated
cache_clear ==
    /\ cache_files' = [h \in CacheHashes |-> None]
    /\ cache_written' = [p \in CachePairs |-> None]
    /\ cache_last_get' = None
    /\ UNCHANGED <<embedding_cache_enabled, cache_purged, sbVars, embVars, tbVars, sdVars, acVars, stVars, qfVars, scVars, prVars, ccVars, mwVars>>

\* a stored file is changed from outside the program: its model field, its
\* hash field, or its text as a whole (no longer JSON).  The pairs stored
\* in that file no longer count as written.
cache_tamper ==
    \E h \in CacheHashes :
        /\ cache_files[h] # None
        /\ \/ cache_files' = [cache_files EXCEPT ![h][1].model = TamperedModel]
           \/ cache_files' = [cache_files EXCEPT ![h][1].hash = TamperedHash]
           \/ cache_files' = [cache_files EXCEPT ![h][1].readable = FALSE]
        /\ cache_written' =
              [p \in CachePairs |->
                  IF ContentHash(p[1], p[2]) = h THEN None ELSE cache_written[p]]
        /\ cache_last_get' = None
        /\ UNCHANGED <<embedding_cache_enabled, cache_purged, sbVars, embVars, tbVars, sdVars, acVars, stVars, qfVars, scVars, prVars, ccVars, mwVars>>

(***************************************************************************)
(* create_embeddings / embed_chunks  (src/vectorization/embeddings.py)     *)
(***************************************************************************)
\* longest list of texts handed to one call
MaxTexts == 3
\* largest batch size of a call
MaxBatchSize == 2
\* a new call is started while no text has been computed this many times
MaxComputed == 3

\* settings.embedding_model
EmbeddingModel == <<"m">>

\* the vector the embedding service computes for a text: client.embeddings
\* .create is deterministic, one vector per input text in the same order
ServiceVector(text) == IF text = <<"x">> THEN 1 ELSE 2

\* embed_chunks, lines 236 and 251-255: the texts cut into num_batches
\* slices of batch_size
NumBatches(texts, batch_size) == (Len(texts) - 1) \div batch_size + 1
BatchSlice(texts, batch_size, batch_num) ==
    SubSeq(texts, batch_num * batch_size + 1,
           Min((batch_num + 1) * batch_size, Len(texts)))

\* one invocation of create_embeddings at its start (lines 54-58);
\* embeddings is the list of (idx, embedding) pairs, idx from 1
NewCall(texts) ==
    [texts |-> texts, pc |-> IF texts = <<>> THEN "done" ELSE "check", idx |-> 1,
     embeddings |-> <<>>,
     indices_to_fetch |-> <<>>, fetch_i |-> 0]

\* the embeddings in the order the pairs were appended
ArrivalOrderEmbeddings(embeddings) ==
    [k \in 1..Len(embeddings) |-> embeddings[k][2]]

\* lines 116-117: [emb for _, emb in sorted(embeddings, key=lambda x: x[0])]
SortedEmbeddings(embeddings) ==
    LET n == Len(embeddings)
        Before(p) == Cardinality({k \in 1..n : embeddings[k][1] < p[1]})
    IN  [k \in 1..n |->
            (CHOOSE p \in {embeddings[j] : j \in 1..n} : Before(p) = k - 1)[2]]

\* lines 297-304: zip(chunks_data, embeddings), the enriched chunks
EnrichedChunks(texts, embeddings) ==
    [i \in 1..Min(Len(texts), Len(embeddings)) |->
        [content |-> texts[i], embedding |-> embeddings[i]]]

EmbInputs == UNION {[1..n -> CacheTexts] : n \in 1..MaxTexts}

EmbIdle ==
    /\ emb_texts = <<>>
    /\ emb_batch_size = 1
    /\ emb_calls = <<>>
    /\ emb_result = <<>>
    /\ emb_pc = "idle"
    /\ api_computed = [t \in CacheTexts |-> 0]
    /\ emb_error = None

EmbInit ==
    /\ emb_texts = <<>>
    /\ emb_batch_size = 1
    /\ emb_calls = <<>>
    /\ emb_result = <<>>
    /\ emb_pc = "returned"
    /\ api_computed = [t \in CacheTexts |-> 0]
    /\ emb_error = None

\* the limit on the threads of one call, lines 241 and 244
WorkersLimit == 4

\* lines 239-245: max_workers when the caller gives none and
\* settings.max_workers is unset
AutoMaxWorkers(num_batches) == Min(Min(WorkersLimit, num_batches), WorkersLimit)

\* embed_chunks(chunks_data, model, batch_size): one create_embeddings job
\* per slice is submitted to the thread pool (lines 229-266).
\* ThreadPoolExecutor(max_workers) raises ValueError when max_workers <= 0
\* (line 260, outside every try): the call ends before any job is submitted.
embed_chunks_start ==
    \E texts \in EmbInputs \cup {<<>>}, batch_size \in 1..MaxBatchSize :
        /\ emb_pc \in {"returned", "vectors", "raised"}
        /\ \A t \in CacheTexts : api_computed[t] < MaxComputed
        /\ emb_texts' = texts
        /\ emb_batch_size' = batch_size
        /\ emb_result' = <<>>
        /\ emb_error' = None
        /\ IF AutoMaxWorkers(NumBatches(texts, batch_size)) <= 0
           THEN /\ emb_calls' = <<>>
                /\ emb_pc' = "raised"
           ELSE /\ emb_calls' = [b \in 1..NumBatches(texts, batch_size) |->
                                    NewCall(BatchSlice(texts, batch_size, b - 1))]
                /\ emb_pc' = "embed_chunks"
        /\ UNCHANGED <<api_computed, cacheVars, sbVars, tbVars, sdVars, acVars, stVars, qfVars, scVars, prVars, ccVars, mwVars>>

\* create_embeddings(texts, model, batch_size) called directly
create_embeddings_start ==
    \E texts \in EmbInputs \cup {<<>>}, batch_size \in 1..MaxBatchSize :
        /\ emb_pc \in {"returned", "vectors", "raised"}
        /\ \A t \in CacheTexts : api_computed[t] < MaxComputed
        /\ emb_texts' = texts
        /\ emb_batch_size' = batch_size
        /\ emb_calls' = <<NewCall(texts)>>
        /\ emb_result' = <<>>
        /\ emb_pc' = "create_embeddings"
        /\ emb_error' = None
        /\ UNCHANGED <<api_computed, cacheVars, sbVars, tbVars, sdVars, acVars, stVars, qfVars, scVars, prVars, ccVars, mwVars>>

\* create_embeddings, lines 61-71: one turn of the cache lookup loop; after
\* the last text the call returns if nothing is to fetch (lines 78-80)
create_embeddings_check ==
    \E w \in 1..Len(emb_calls) :
        LET c == emb_calls[w]
            text == c.texts[c.idx]
            cached == GetResult(cache_files, embedding_cache_enabled, text, EmbeddingModel)
            to_fetch == IF cached # None THEN c.indices_to_fetch
                        ELSE Append(c.indices_to_fetch, c.idx)
            last == c.idx = Len(c.texts)
        IN  /\ c.pc = "check"
            /\ cache_files' = GetFiles(cache_files, embedding_cache_enabled,
                                       text, EmbeddingModel)
            /\ emb_calls' = [emb_calls EXCEPT ![w] =
                  [c EXCEPT !.embeddings = IF cached # None
                                             THEN Append(@, <<c.idx, cached[1]>>)
                                             ELSE @,
                            !.indices_to_fetch = to_fetch,
                            !.idx = c.idx + 1,
                            !.pc = IF ~last THEN "check"
                                   ELSE IF to_fetch = <<>> THEN "done" ELSE "fetch"]]
            /\ UNCHANGED <<emb_texts, emb_batch_size, emb_result, emb_pc, emb_error, api_computed,
                           embedding_cache_enabled, cache_last_get, cache_written,
                           cache_purged, sbVars, tbVars, sdVars, acVars, stVars, qfVars, scVars, prVars, ccVars, mwVars>>

RECURSIVE SetAll(_, _, _, _)
\* lines 101-105: every vector of a response is written to the cache
SetAll(files, enabled, texts, k) ==
    IF k > Len(texts) THEN files
    ELSE SetAll(SetFiles(files, enabled, texts[k], EmbeddingModel, ServiceVector(texts[k])),
                enabled, texts, k + 1)

\* how many members of the sequence equal t
CountIn(seq, t) == Cardinality({k \in 1..Len(seq) : seq[k] = t})

\* create_embeddings, lines 86-106: one turn of the fetch loop: the service
\* computes the vectors of up to batch_size texts, each is recorded and cached
create_embeddings_fetch ==
    \E w \in 1..Len(emb_calls) :
        LET c == emb_calls[w]
            batch_indices == SubSeq(c.indices_to_fetch, c.fetch_i + 1,
                                Min(c.fetch_i + emb_batch_size, Len(c.indices_to_fetch)))
            batch == [k \in 1..Len(batch_indices) |-> c.texts[batch_indices[k]]]
            last == c.fetch_i + emb_batch_size >= Len(c.indices_to_fetch)
        IN  /\ c.pc = "fetch"
            /\ api_computed' = [t \in CacheTexts |-> api_computed[t] + CountIn(batch, t)]
            /\ cache_files' = SetAll(cache_files, embedding_cache_enabled, batch, 1)
            /\ emb_calls' = [emb_calls EXCEPT ![w] =
                  [c EXCEPT !.embeddings =
                                @ \o [k \in 1..Len(batch_indices) |->
                                        <<batch_indices[k], ServiceVector(batch[k])>>],
                            !.fetch_i = c.fetch_i + emb_batch_size,
                            !.pc = IF last THEN "done" ELSE "fetch"]]
            /\ UNCHANGED <<emb_texts, emb_batch_size, emb_result, emb_pc, emb_error,
                           embedding_cache_enabled, cache_last_get, cache_written,
                           cache_purged, sbVars, tbVars, sdVars, acVars, stVars, qfVars, scVars, prVars, ccVars, mwVars>>

\* the call returns: create_embeddings its sorted vectors (lines 116-117),
\* embed_chunks the vectors of its batches in batch order (lines 292-294)
emb_return ==
    /\ emb_pc \in {"embed_chunks", "create_embeddings"}
    /\ \A w \in 1..Len(emb_calls) : emb_calls[w].pc = "done"
    /\ LET embeddings == Flatten([w \in 1..Len(emb_calls) |->
                                     SortedEmbeddings(emb_calls[w].embeddings)])
       IN  emb_result' = IF emb_pc = "embed_chunks"
                         THEN EnrichedChunks(emb_texts, embeddings)
                         ELSE embeddings
    /\ emb_calls' = <<>>
    /\ emb_pc' = IF emb_pc = "embed_chunks" THEN "returned" ELSE "vectors"
    /\ UNCHANGED <<emb_texts, emb_batch_size, emb_error, api_computed, cacheVars, sbVars, tbVars, sdVars, acVars, stVars, qfVars, scVars, prVars, ccVars, mwVars>>

\* create_embeddings, lines 86-114: client.embeddings.create raises in a turn
\* of the fetch loop; the exception is wrapped in a PipelineError and the
\* call ends.  The vectors of the earlier turns stay in the cache.
create_embeddings_fail ==
    \E w \in 1..Len(emb_calls) :
        /\ emb_calls[w].pc = "fetch"
        /\ emb_calls' = [emb_calls EXCEPT ![w].pc = "failed"]
        /\ UNCHANGED <<emb_texts, emb_batch_size, emb_result, emb_pc, emb_error,
                       api_computed, cacheVars, sbVars, tbVars, sdVars, acVars,
                       stVars, qfVars, scVars, prVars, ccVars, mwVars>>

\* embed_chunks, lines 268-290: future.result() of a failed job raises; the
\* PipelineError names batch_num + 1 and leaves the function, the pool
\* waits for the jobs still running, and embeddings_by_batch is dropped with
\* the frame.  A direct create_embeddings call raises its own PipelineError
\* (lines 108-114), which names no batch.
emb_raise ==
    \E w \in 1..Len(emb_calls) :
        /\ emb_pc \in {"embed_chunks", "create_embeddings"}
        /\ emb_calls[w].pc = "failed"
        /\ \A v \in 1..Len(emb_calls) : emb_calls[v].pc \in {"done", "failed"}
        /\ emb_error' = IF emb_pc = "embed_chunks" THEN Some(w) ELSE None
        /\ emb_result' = <<>>
        /\ emb_pc' = "raised"
        /\ UNCHANGED <<emb_texts, emb_batch_size, emb_calls, api_computed, cacheVars,
                       sbVars, tbVars, sdVars, acVars, stVars, qfVars, scVars, prVars, ccVars, mwVars>>

(***************************************************************************)
(* TokenBasedChunker  (src/processors/token_based_chunker.py)              *)
(***************************************************************************)
\* largest chunk_size_tokens and max_tokens_per_chunk
MaxSizeTokens == 2
\* largest chunk_overlap_tokens (it may reach and exceed the size)
MaxOverlapTokens == 3
\* longest content, in characters, of a segment handed to rechunk_with_tokens
MaxRechunkLen == 6
\* longest list handed to rechunk_with_tokens
MaxRechunkChunks == 2

Letters == <<"a", "b", "c", "d", "e", "f", "g", "h">>

\* a text of n letters, and a text of n blanks
LetterText(n) == [k \in 1..n |-> Letters[((k - 1) % Len(Letters)) + 1]]
BlankText(n) == [k \in 1..n |-> " "]

\* Python's  seq[a:b]  for any integers a and b
PySlice(seq, a, b) ==
    LET n == Len(seq)
        lo == IF a < 0 THEN Max(a + n, 0) ELSE Min(a, n)
        hi == IF b < 0 THEN Max(b + n, 0) ELSE Min(b, n)
    IN  SubSeq(seq, lo + 1, hi)

\* text.strip(): the text without its leading and trailing blanks is empty
\* exactly when every character is a blank
StripIsEmpty(text) == \A k \in 1..Len(text) : text[k] = " "

\* get_token_count(text) (lines 90-92)
get_token_count(text) == IF text = <<>> THEN 0 ELSE Len(Encode(text))

\* the cursor below which every window tokens[i:i + size] is empty: a
\* cursor that keeps falling is recorded no lower
CursorFloor(tokens, size) == 0 - (Len(tokens) + size)

\* the sub-chunks rechunk_with_tokens builds from the windows of one chunk
\* (lines 123-130): the metadata is copied, token_count and chunk_index are
\* set
SubChunks(chunk, sub_chunks) ==
    [i \in 1..Len(sub_chunks) |->
        [chunk EXCEPT !.content = sub_chunks[i],
                      !.token_count = Some(get_token_count(sub_chunks[i])),
                      !.chunk_index = chunk.chunk_index \o <<i - 1>>]]

TbContents ==
    {LetterText(n) : n \in 0..MaxRechunkLen} \cup {BlankText(n) : n \in 1..MaxRechunkLen}

\* the segments handed to rechunk_with_tokens: chunk_size is the length of
\* the content, chunk_index the position in the list
TbInputs ==
    {[k \in 1..Len(cs) |->
        [content |-> cs[k], chunk_size |-> Len(cs[k]), chunk_index |-> <<k - 1>>,
         token_count |-> None]]
     : cs \in SeqsUpTo(TbContents, MaxRechunkChunks)}

TbIdle ==
    /\ chunk_size_tokens = 1
    /\ chunk_overlap_tokens = 0
    /\ max_tokens_per_chunk = 1
    /\ tb_chunks = <<>>
    /\ tb_k = 1
    /\ rechunked = <<>>
    /\ tb_pc = "idle"
    /\ ct_tokens = <<>>
    /\ ct_i = 0
    /\ ct_chunks = <<>>
    /\ ct_turn = 0

\* TokenBasedChunker.__init__ with any sizes, then rechunk_with_tokens
\* called with any list and ceiling (lines 32-33, 109)
TbInit ==
    /\ chunk_size_tokens \in 1..MaxSizeTokens
    /\ chunk_overlap_tokens \in 0..MaxOverlapTokens
    /\ max_tokens_per_chunk \in 1..MaxSizeTokens
    /\ tb_chunks \in TbInputs
    /\ tb_k = 1
    /\ rechunked = <<>>
    /\ tb_pc = "rechunk"
    /\ ct_tokens = <<>>
    /\ ct_i = 0
    /\ ct_chunks = <<>>
    /\ ct_turn = 0

tbConfig == <<chunk_size_tokens, chunk_overlap_tokens, max_tokens_per_chunk, tb_chunks>>

\* rechunk_with_tokens, lines 111-122: one turn of the loop up to the call
\* of chunk_text; chunk_text returns at once for a blank text (lines 51-58)
rechunk_next_chunk ==
    /\ tb_pc = "rechunk"
    /\ tb_k <= Len(tb_chunks)
    /\ LET chunk == tb_chunks[tb_k]
           token_count == get_token_count(chunk.content)
       IN  IF token_count <= max_tokens_per_chunk
           THEN /\ rechunked' = Append(rechunked,
                                    [chunk EXCEPT !.token_count = Some(token_count)])
                /\ tb_k' = tb_k + 1
                /\ UNCHANGED <<tb_pc, ct_tokens, ct_i, ct_chunks, ct_turn>>
           ELSE IF StripIsEmpty(chunk.content) \/ Encode(chunk.content) = <<>>
           THEN /\ tb_k' = tb_k + 1
                /\ UNCHANGED <<rechunked, tb_pc, ct_tokens, ct_i, ct_chunks, ct_turn>>
           ELSE /\ tb_pc' = "chunk_text"
                /\ ct_tokens' = Encode(chunk.content)
                /\ ct_i' = 0
                /\ ct_chunks' = <<>>
                /\ ct_turn' = 0
                /\ UNCHANGED <<rechunked, tb_k>>
    /\ UNCHANGED <<tbConfig, sbVars, cacheVars, embVars, sdVars, acVars, stVars, qfVars, scVars, prVars, ccVars, mwVars>>

\* chunk_text, lines 63-76: one turn of the window loop.  When the cursor
\* has reached the end the call returns and rechunk_with_tokens appends the
\* sub-chunks (lines 123-130).  A list of windows longer than the token
\* stream (no returning call builds one) is recorded no further.
chunk_text_window ==
    /\ tb_pc = "chunk_text"
    /\ LET chunk_tokens == PySlice(ct_tokens, ct_i, ct_i + chunk_size_tokens)
           chunks == IF Len(ct_chunks) <= Len(ct_tokens)
                     THEN Append(ct_chunks, Decode(chunk_tokens))
                     ELSE ct_chunks
           i == Max(ct_i + chunk_size_tokens - chunk_overlap_tokens,
                    CursorFloor(ct_tokens, chunk_size_tokens))
       IN  IF i >= Len(ct_tokens)
           THEN /\ rechunked' = rechunked \o SubChunks(tb_chunks[tb_k], chunks)
                /\ tb_k' = tb_k + 1
                /\ tb_pc' = "rechunk"
                /\ ct_tokens' = <<>>
                /\ ct_i' = 0
                /\ ct_chunks' = <<>>
                /\ ct_turn' = 0
           ELSE /\ ct_i' = i
                /\ ct_chunks' = chunks
                /\ ct_turn' = 1 - ct_turn
                /\ UNCHANGED <<rechunked, tb_k, tb_pc, ct_tokens>>
    /\ UNCHANGED <<tbConfig, sbVars, cacheVars, embVars, sdVars, acVars, stVars, qfVars, scVars, prVars, ccVars, mwVars>>

\* rechunk_with_tokens, line 132: the list is returned
rechunk_return ==
    /\ tb_pc = "rechunk"
    /\ tb_k > Len(tb_chunks)
    /\ tb_pc' = "done"
    /\ UNCHANGED <<tbConfig, tb_k, rechunked, ct_tokens, ct_i, ct_chunks, ct_turn,
                   sbVars, cacheVars, embVars, sdVars, acVars, stVars, qfVars, scVars, prVars, ccVars, mwVars>>

(***************************************************************************)
(* SectionDetector  (src/processors/section_detector.py)                   *)
(***************************************************************************)
\* most lines of a document
MaxLines == 4

UpperLetters == {"A", "B", "C", "D", "E", "F"}
LowerLetters == {"a", "b", "c", "d", "e", "f", "g", "h", "t"}
Whitespace == {" ", "\t", "\n"}

\* str.strip()
RECURSIVE Strip(_)
Strip(text) ==
    IF text = <<>> THEN text
    ELSE IF Head(text) \in Whitespace THEN Strip(Tail(text))
    ELSE IF text[Len(text)] \in Whitespace THEN Strip(SubSeq(text, 1, Len(text) - 1))
    ELSE text

\* the length of the longest prefix of text made of members of S
RECURSIVE PrefixIn(_, _)
PrefixIn(text, S) ==
    IF text = <<>> \/ Head(text) \notin S THEN 0 ELSE 1 + PrefixIn(Tail(text), S)

\* str.isupper(): some cased character, and no lower-case one
IsUpper(text) ==
    /\ \E k \in 1..Len(text) : text[k] \in UpperLetters
    /\ \A k \in 1..Len(text) : text[k] \notin LowerLetters

\* sum(c.isalpha() for c in stripped)
AlphaCount(text) ==
    Cardinality({k \in 1..Len(text) : text[k] \in UpperLetters \cup LowerLetters})

\* detect_heading(line): Some(<<level, title>>) or None (lines 56-71).  The
\* pattern ^(#{1,6})\s+(.+)$ matches a stripped line that starts with one to
\* six '#', then white space, then at least one character.
detect_heading(line) ==
    LET stripped == Strip(line)
        hashes == PrefixIn(stripped, {"#"})
        rest == SubSeq(stripped, hashes + 1, Len(stripped))
        spaces == PrefixIn(rest, Whitespace)
    IN  IF hashes \in 1..6 /\ spaces >= 1 /\ Len(rest) > spaces
        THEN Some(<<hashes, Strip(SubSeq(rest, spaces + 1, Len(rest)))>>)
        ELSE IF /\ IsUpper(stripped)
                /\ 5 < Len(stripped)
                /\ Len(stripped) < 100
                /\ AlphaCount(stripped) * 10 > 6 * Len(stripped)
        THEN Some(<<3, stripped>>)
        ELSE None

\* str.split('\n')
RECURSIVE SplitLines(_, _)
SplitLines(text, line) ==
    IF text = <<>> THEN <<line>>
    ELSE IF Head(text) = "\n" THEN <<line>> \o SplitLines(Tail(text), <<>>)
    ELSE SplitLines(Tail(text), Append(line, Head(text)))

\* '\n'.join(lines)
RECURSIVE JoinLines(_)
JoinLines(lines) ==
    IF lines = <<>> THEN <<>>
    ELSE IF Len(lines) = 1 THEN lines[1]
    ELSE lines[1] \o <<"\n">> \o JoinLines(Tail(lines))

\* lines 96-100 without the walk down the levels: only the level just
\* above the heading is looked up
FindParentOneLevelUp(current_sections, parent_level) ==
    IF parent_level < 1 THEN 0 ELSE current_sections[parent_level]

\* the parent of a heading of the given level: the section of the nearest
\* smaller level present in current_sections, 0 for none (lines 96-100).
\* current_sections maps a level to the index of its section, 0 when the
\* level is not a key.
RECURSIVE FindParent(_, _)
FindParent(current_sections, parent_level) ==
    IF parent_level < 1 THEN 0
    ELSE IF current_sections[parent_level] # 0 THEN current_sections[parent_level]
    ELSE FindParent(current_sections, parent_level - 1)

\* the while loop of parse_document (lines 88-126) from line i on, with
\* the locals it ends with; line numbers start at 0
RECURSIVE ParseState(_, _, _, _)
ParseState(lines, i, secs, current_sections) ==
    IF i >= Len(lines) THEN [sections |-> secs, current_sections |-> current_sections]
    ELSE
        LET heading_info == detect_heading(lines[i + 1])
        IN  IF heading_info = None THEN ParseState(lines, i + 1, secs, current_sections)
            ELSE
                LET level == heading_info[1][1]
                    title == heading_info[1][2]
                    parent == FindParent(current_sections, level - 1)
                    me == Len(secs) + 1
                    section == [level |-> level, title |-> title, start_line |-> i,
                                end_line |-> i, content |-> <<>>, parent |-> parent,
                                children |-> <<>>]
                    withChild ==
                        IF parent = 0 THEN secs
                        ELSE [secs EXCEPT ![parent].children = Append(@, me)]
                IN  ParseState(lines, i + 1, Append(withChild, section),
                        [l \in 1..6 |-> IF l = level THEN me
                                        ELSE IF l > level THEN 0
                                        ELSE current_sections[l]])

\* self.sections when the loop ends
ParseLoop(lines, i, secs, current_sections) ==
    ParseState(lines, i, secs, current_sections).sections

\* the end line of section i (lines 130-133): one line before the next
\* section of the list, the last line for the last section
EndLine(lines, secs, i) ==
    IF i + 1 <= Len(secs) THEN secs[i + 1].start_line - 1 ELSE Len(lines) - 1

\* SectionDetector.parse_document(text)
ParseDocument(text) ==
    LET lines == SplitLines(text, <<>>)
        secs == ParseLoop(lines, 0, <<>>, [l \in 1..6 |-> 0])
    IN  [i \in 1..Len(secs) |->
            [secs[i] EXCEPT
                !.end_line = EndLine(lines, secs, i),
                !.content = JoinLines(SubSeq(lines, secs[i].start_line + 1,
                                             EndLine(lines, secs, i) + 1))]]

\* the lines documents are made of: headings of depth 1 to 3, a plain line,
\* an upper-case line, a '#' run without title
SdLineKinds ==
    { <<"#", " ", "A">>, <<"#", "#", " ", "B">>, <<"#", "#", "#", " ", "C">>,
      <<"t">>, <<"A", "B", "C", "D", "E", "F">>, <<"#", "#">> }

SdTexts == {JoinLines(ls) : ls \in SeqsUpTo(SdLineKinds, MaxLines)}

SdIdle ==
    /\ sd_text = <<>>
    /\ sections = <<>>
    /\ sd_pc = "idle"

SdInit ==
    /\ sd_text \in SdTexts
    /\ sections = <<>>
    /\ sd_pc = "ready"

\* one call of parse_document on the document
parse_document ==
    /\ sd_pc = "ready"
    /\ sections' = ParseDocument(sd_text)
    /\ sd_pc' = "parsed"
    /\ UNCHANGED <<sd_text, sbVars, cacheVars, embVars, tbVars, acVars, stVars, qfVars, scVars, prVars, ccVars, mwVars>>

(***************************************************************************)
(* AdaptiveChunker  (src/processors/chunking_strategies.py)                *)
(*                                                                         *)
(* chunk_text builds a RecursiveCharacterTextSplitter of the               *)
(* langchain_text_splitters library from the profile of the content type   *)
(* and returns its split_text.  The operators below follow the library's   *)
(* split_text with its defaults (keep_separator at the start of a piece,   *)
(* strip_whitespace, literal separators, length in characters).            *)
(*                                                                         *)
(* The profiles keep their separator lists; their sizes are counted in     *)
(* units of SizeUnit characters, so that a text longer than a chunk is     *)
(* short enough to enumerate.                                              *)
(***************************************************************************)
\* characters per unit of the profiles' chunk_size and chunk_overlap
SizeUnit == 100
\* most blocks of a text
MaxBlocks == 3

\* the character U+0060 of the code fence, which a TLA+ string cannot hold
Backquote == "bq"

ContentTypes == {"narrative", "table", "list", "code", "mixed"}

NarrativeSeparators ==
    << <<"\n", "#", "#", "#", " ">>, <<"\n", "#", "#", " ">>, <<"\n", "#", " ">>,
       <<"\n", "\n">>, <<"\n">>, <<".", " ">>, <<" ">>, <<>> >>

\* self.configs (lines 127-158)
configs ==
    [narrative |-> [chunk_size |-> 1000 \div SizeUnit,
                    chunk_overlap |-> 200 \div SizeUnit,
                    separators |-> NarrativeSeparators],
     table |-> [chunk_size |-> 2000 \div SizeUnit,
                chunk_overlap |-> 0,
                separators |-> << <<"\n", "\n">>, <<"\n">> >>],
     list |-> [chunk_size |-> 1500 \div SizeUnit,
               chunk_overlap |-> 100 \div SizeUnit,
               separators |-> << <<"\n", "\n">>, <<"\n", "-", " ">>,
                                 <<"\n", "*", " ">>, <<"\n", "+", " ">>, <<"\n">> >>],
     code |-> [chunk_size |-> 1500 \div SizeUnit,
               chunk_overlap |-> 100 \div SizeUnit,
               separators |-> << <<"\n", "\n">>, <<"\n", Backquote, Backquote, Backquote>>,
                                 <<"\n">>, <<>> >>],
     mixed |-> [chunk_size |-> 1000 \div SizeUnit,
                chunk_overlap |-> 150 \div SizeUnit,
                separators |-> NarrativeSeparators]]

\* self.configs.get(content_type, self.configs["narrative"]) (line 177)
ConfigOf(content_type) ==
    IF content_type \in ContentTypes THEN configs[content_type]
    ELSE configs["narrative"]

\* the first position from which sep occurs in text, 0 for none
FindSep(text, sep) ==
    LET at == {p \in 1..(Len(text) - Len(sep) + 1) :
                   SubSeq(text, p, p + Len(sep) - 1) = sep}
    IN  IF at = {} THEN 0 ELSE CHOOSE p \in at : \A q \in at : p <= q

\* re.split on a non-empty literal separator: the texts between matches
RECURSIVE SplitPieces(_, _)
SplitPieces(text, sep) ==
    LET p == FindSep(text, sep)
    IN  IF p = 0 THEN <<text>>
        ELSE <<SubSeq(text, 1, p - 1)>>
                 \o SplitPieces(SubSeq(text, p + Len(sep), Len(text)), sep)

NonEmpty(splits) == SelectSeq(splits, LAMBDA t : t # <<>>)

\* _split_text_with_regex(text, separator, keep_separator=True): each
\* separator stays at the start of the piece that follows it; the empty
\* separator gives the characters; empty pieces are dropped
SplitWithSeparator(text, sep) ==
    IF sep = <<>> THEN [k \in 1..Len(text) |-> <<text[k]>>]
    ELSE LET pieces == SplitPieces(text, sep)
         IN  NonEmpty([k \in 1..Len(pieces) |->
                           IF k = 1 THEN pieces[1] ELSE sep \o pieces[k]])

\* _join_docs: the pieces joined and stripped, None for an empty result
JoinDocs(docs) ==
    LET text == Strip(Flatten(docs))
    IN  IF text = <<>> THEN None ELSE Some(text)

\* the while loop of _merge_splits: drop pieces from the front of
\* current_doc until the kept overlap is small enough and the next piece fits
RECURSIVE DropFront(_, _, _, _, _)
DropFront(current_doc, total, len, chunk_size, chunk_overlap) ==
    IF total > chunk_overlap \/ (total + len > chunk_size /\ total > 0)
    THEN DropFront(Tail(current_doc), total - Len(Head(current_doc)), len,
                   chunk_size, chunk_overlap)
    ELSE <<current_doc, total>>

\* the for loop of _merge_splits(splits, separator=""): the docs emitted
\* from the splits left, given the pieces and the length of the doc in
\* progress
RECURSIVE MergeLoop(_, _, _, _, _)
MergeLoop(splits, current_doc, total, chunk_size, chunk_overlap) ==
    IF splits = <<>> THEN JoinDocs(current_doc)
    ELSE
        LET d == Head(splits)
            flush == current_doc # <<>> /\ total + Len(d) > chunk_size
            kept == IF flush
                    THEN DropFront(current_doc, total, Len(d), chunk_size, chunk_overlap)
                    ELSE <<current_doc, total>>
        IN  (IF flush THEN JoinDocs(current_doc) ELSE <<>>)
                \o MergeLoop(Tail(splits), Append(kept[1], d), kept[2] + Len(d),
                             chunk_size, chunk_overlap)

MergeSplits(splits, chunk_size, chunk_overlap) ==
    MergeLoop(splits, <<>>, 0, chunk_size, chunk_overlap)

\* the separator _split_text picks: the first of the list that is empty or
\* occurs in the text, the last of the list when there is none; with it the
\* separators left for the pieces that are still too long
RECURSIVE PickSeparator(_, _)
PickSeparator(text, separators) ==
    IF Len(separators) = 1 /\ Head(separators) # <<>> /\ FindSep(text, Head(separators)) = 0
    THEN [separator |-> Head(separators), new_separators |-> <<>>]
    ELSE IF Head(separators) = <<>>
    THEN [separator |-> <<>>, new_separators |-> <<>>]
    ELSE IF FindSep(text, Head(separators)) # 0
    THEN [separator |-> Head(separators), new_separators |-> Tail(separators)]
    ELSE PickSeparator(text, Tail(separators))

\* RecursiveCharacterTextSplitter._split_text(text, separators).  The for
\* loop over the splits collects in _good_splits the pieces shorter than
\* chunk_size and merges them when a longer piece or the end comes; a longer
\* piece is split with the separators left, or kept as it is when none is
\* left.
RECURSIVE SplitText(_, _, _, _)
RECURSIVE SplitLoop(_, _, _, _)
SplitLoop(splits, new_separators, chunk_size, chunk_overlap) ==
    LET long == {k \in 1..Len(splits) : Len(splits[k]) >= chunk_size}
    IN  IF long = {} THEN MergeSplits(splits, chunk_size, chunk_overlap)
        ELSE
            LET k == CHOOSE j \in long : \A l \in long : j <= l
            IN  MergeSplits(SubSeq(splits, 1, k - 1), chunk_size, chunk_overlap)
                  \o (IF new_separators = <<>> THEN <<splits[k]>>
                      ELSE SplitText(splits[k], new_separators, chunk_size, chunk_overlap))
                  \o SplitLoop(SubSeq(splits, k + 1, Len(splits)), new_separators,
                               chunk_size, chunk_overlap)

SplitText(text, separators, chunk_size, chunk_overlap) ==
    LET pick == PickSeparator(text, separators)
    IN  SplitLoop(SplitWithSeparator(text, pick.separator), pick.new_separators,
                  chunk_size, chunk_overlap)

\* AdaptiveChunker.chunk_text(text, content_type)
AdaptiveChunkText(text, content_type) ==
    LET config == ConfigOf(content_type)
    IN  SplitText(text, config.separators, config.chunk_size, config.chunk_overlap)

\* the blocks texts are made of: runs without separator that are short, half
\* a chunk or longer than a chunk of the profile, and separators
AcBlocks(chunk_size) ==
    {Repeat("x", n) : n \in {1, chunk_size \div 2, chunk_size + 1}}
        \cup { <<"\n">>, <<"\n", "\n">>, <<" ">>, <<".", " ">>, <<"\n", "-", " ">>,
               <<"\n", "#", " ">>, <<"\n", Backquote, Backquote, Backquote>> }

AcTexts(chunk_size) == {Flatten(bs) : bs \in SeqsUpTo(AcBlocks(chunk_size), MaxBlocks)}

AcIdle ==
    /\ ac_text = <<>>
    /\ ac_type = "narrative"
    /\ ac_pieces = <<>>
    /\ ac_pc = "idle"

AcInit ==
    /\ ac_type \in ContentTypes \cup {"unknown"}
    /\ ac_text \in AcTexts(ConfigOf(ac_type).chunk_size)
    /\ ac_pieces = <<>>
    /\ ac_pc = "ready"

\* one call of chunk_text
adaptive_chunk_text ==
    /\ ac_pc = "ready"
    /\ ac_pieces' = AdaptiveChunkText(ac_text, ac_type)
    /\ ac_pc' = "chunked"
    /\ UNCHANGED <<ac_text, ac_type, sbVars, cacheVars, embVars, tbVars, sdVars, stVars, qfVars, scVars, prVars, ccVars, mwVars>>

(***************************************************************************)
(* The stages that create or rewrite the segments of a document:           *)
(* base metadata (src/processors/advanced_chunker.py), contextual          *)
(* augmentation (src/processors/contextual_augmenter.py), fusion of small  *)
(* segments (src/processors/chunk_merger.py), token re-binning             *)
(* (src/processors/token_based_chunker.py).                                *)
(*                                                                         *)
(* A segment is a record of its content, of the metadata keys the stages   *)
(* read or write (an absent key is None) and of the '_processed' mark.     *)
(***************************************************************************)
\* most raw pieces of a document, and the longest of them
MaxPieces == 2
MaxPieceLen == 4

\* '\n'.join-like: the pieces with sep between them
RECURSIVE JoinWith(_, _)
JoinWith(pieces, sep) ==
    IF pieces = <<>> THEN <<>>
    ELSE IF Len(pieces) = 1 THEN pieces[1]
    ELSE pieces[1] \o sep \o JoinWith(Tail(pieces), sep)

\* str.replace(old, new)
Replace(text, old, new) == JoinWith(SplitPieces(text, old), new)

FileName == <<"a", "_", "b", ".", "m", "d">>

\* the sections get_section_for_text_position may find for a piece: a
\* top-level section and a section below it
SectionS == [title |-> <<"S">>, level |-> 1, hierarchy_string |-> <<"S">>]
SectionT == [title |-> <<"T">>, level |-> 2,
             hierarchy_string |-> <<"S", " ", ">", " ", "T">>]

\* the segments with base metadata (advanced_chunker.py lines 137-168);
\* section[i] is the section found at the position of piece i, if any
BaseChunks(chunks_text, section) ==
    [i \in 1..Len(chunks_text) |->
        [content |-> chunks_text[i],
         file_name |-> Some(FileName),
         chunk_index |-> <<i - 1>>,
         total_chunks |-> Len(chunks_text),
         chunk_size |-> Len(chunks_text[i]),
         section_title |->
            IF section[i] = None THEN None ELSE Some(section[i][1].title),
         section_level |->
            IF section[i] = None THEN None ELSE Some(section[i][1].level),
         section_hierarchy_string |->
            IF section[i] = None THEN None ELSE Some(section[i][1].hierarchy_string),
         token_count |-> None,
         original_content |-> None,
         merged |-> FALSE,
         merged_from |-> <<>>,
         original_chunk_sizes |-> <<>>,
         processed |-> FALSE]]

\* ContextualAugmenter.create_context_header(metadata) (lines 43-72); no
\* segment carries the keys document_type and topics, which the language
\* model of the enrichment writes
create_context_header(metadata, augmenter) ==
    LET document ==
            IF augmenter.add_document_title /\ metadata.file_name \notin {None, Some(<<>>)}
            THEN << <<"D", "o", "c", "u", "m", "e", "n", "t", ":", " ">>
                      \o Replace(Replace(metadata.file_name[1], <<".", "m", "d">>, <<>>),
                                 <<"_">>, <<" ">>) >>
            ELSE <<>>
        section ==
            IF /\ augmenter.add_section_hierarchy
               /\ metadata.section_hierarchy_string \notin {None, Some(<<>>)}
            THEN << <<"S", "e", "c", "t", "i", "o", "n", ":", " ">> \o metadata.section_hierarchy_string[1] >>
            ELSE <<>>
        header_parts == document \o section
    IN  IF header_parts = <<>> THEN <<>>
        ELSE IF augmenter.separator_style = "markdown"
        THEN <<"-", "-", "-", "\n">> \o JoinWith(header_parts, <<"\n">>) \o <<"\n", "-", "-", "-", "\n", "\n">>
        ELSE <<"[">> \o JoinWith(header_parts, <<" ", "|", " ">>) \o <<"]", "\n", "\n">>

\* augment_chunk without the test  'original_content' not in metadata
augment_chunk_overwrites(chunk, augmenter, preserve_original) ==
    LET metadata ==
            IF preserve_original
            THEN [chunk EXCEPT !.original_content = Some(chunk.content)]
            ELSE chunk
    IN  [metadata EXCEPT
            !.content = create_context_header(metadata, augmenter) \o chunk.content]

\* ContextualAugmenter.augment_chunk(chunk, preserve_original) (lines
\* 85-101): the metadata is a copy in which only original_content may be set
augment_chunk(chunk, augmenter, preserve_original) ==
    LET metadata ==
            IF preserve_original /\ chunk.original_content = None
            THEN [chunk EXCEPT !.original_content = Some(chunk.content)]
            ELSE chunk
    IN  [metadata EXCEPT
            !.content = create_context_header(metadata, augmenter) \o chunk.content]

\* ChunkMerger._find_best_neighbor(chunks, current_idx) (lines 103-117):
\* the index of the neighbour to fuse with, None for none
find_best_neighbor(chunks, current_idx, merger) ==
    IF /\ merger.merge_strategy = "sequential"
       /\ current_idx + 1 < Len(chunks)
       /\ ~chunks[current_idx + 2].processed
       /\ Len(chunks[current_idx + 1].content \o <<"\n", "\n">>
                \o chunks[current_idx + 2].content) <= merger.max_chunk_size
    THEN Some(current_idx + 1)
    ELSE None

\* _merge_two_chunks without lines 156-159: the section of chunk1 stays
merge_two_chunks_keeps_section(chunk1, chunk2) ==
    LET merged_content == chunk1.content \o <<"\n", "\n">> \o chunk2.content
    IN  [chunk1 EXCEPT
            !.content = merged_content,
            !.merged = TRUE,
            !.merged_from = chunk1.chunk_index \o chunk2.chunk_index,
            !.chunk_size = Len(merged_content),
            !.original_chunk_sizes = <<Len(chunk1.content), Len(chunk2.content)>>,
            !.processed = FALSE]

\* ChunkMerger._merge_two_chunks(chunk1, chunk2) (lines 134-164); the
\* metadata is a copy of chunk1's
merge_two_chunks(chunk1, chunk2) ==
    LET merged_content == chunk1.content \o <<"\n", "\n">> \o chunk2.content
    IN  [chunk1 EXCEPT
            !.content = merged_content,
            !.merged = TRUE,
            !.merged_from = chunk1.chunk_index \o chunk2.chunk_index,
            !.chunk_size = Len(merged_content),
            !.original_chunk_sizes = <<Len(chunk1.content), Len(chunk2.content)>>,
            !.section_title =
                IF chunk2.section_title # None THEN chunk2.section_title
                ELSE chunk1.section_title,
            !.section_level =
                IF chunk2.section_level # None THEN chunk2.section_level
                ELSE chunk1.section_level,
            !.processed = FALSE]

\* the while loop of ChunkMerger.merge_chunks (lines 50-83) from index i on
RECURSIVE MergeChunksLoop(_, _, _, _)
MergeChunksLoop(chunks, i, merged, merger) ==
    IF i >= Len(chunks) THEN merged
    ELSE
        LET current_chunk == chunks[i + 1]
            current_size == Len(current_chunk.content)
        IN  IF current_size < merger.min_chunk_size /\ i + 1 < Len(chunks)
            THEN
                LET best_neighbor_idx == find_best_neighbor(chunks, i, merger)
                IN  IF best_neighbor_idx = None
                    THEN MergeChunksLoop(chunks, i + 1, Append(merged, current_chunk), merger)
                    ELSE
                        LET merged_chunk ==
                                merge_two_chunks(current_chunk,
                                                 chunks[best_neighbor_idx[1] + 1])
                        IN  IF Len(merged_chunk.content) <= merger.max_chunk_size
                            THEN MergeChunksLoop(
                                     [chunks EXCEPT ![best_neighbor_idx[1] + 1].processed = TRUE],
                                     i + 2, Append(merged, merged_chunk), merger)
                            ELSE MergeChunksLoop(chunks, i + 1,
                                                 Append(merged, current_chunk), merger)
            ELSE MergeChunksLoop(chunks, i + 1,
                     IF current_chunk.processed THEN merged
                     ELSE Append(merged, current_chunk),
                     merger)

\* merge_chunks with a scan that starts at the second segment
merge_chunks_from_second(chunks, merger) == MergeChunksLoop(chunks, 1, <<>>, merger)

\* ChunkMerger.merge_chunks(chunks)
merge_chunks(chunks, merger) == MergeChunksLoop(chunks, 0, <<>>, merger)

StPieceTexts == {LetterText(n) : n \in 1..MaxPieceLen}

Augmenters ==
    [add_document_title : BOOLEAN, add_section_hierarchy : BOOLEAN,
     separator_style : {"markdown", "plain"}]

\* ContextualAugmenter() as the pipeline builds it (advanced_chunker.py
\* line 62)
DefaultAugmenter ==
    [add_document_title |-> TRUE, add_section_hierarchy |-> TRUE,
     separator_style |-> "markdown"]

\* the sizes of a merger: below, between and above the lengths met
Mergers ==
    [min_chunk_size : {0, MaxPieceLen, 100}, max_chunk_size : {MaxPieceLen + 2, 100},
     merge_strategy : {"sequential", "semantic"}]

DefaultMerger ==
    [min_chunk_size |-> 0, max_chunk_size |-> 100, merge_strategy |-> "sequential"]

StIdle ==
    /\ st_pieces = <<>>
    /\ st_section = <<>>
    /\ st_chunks = <<>>
    /\ st_stages = <<>>
    /\ st_pc = "idle"
    /\ st_augmenter = DefaultAugmenter
    /\ st_merger = DefaultMerger

StInit ==
    /\ st_pieces \in SeqsUpTo(StPieceTexts, MaxPieces)
    /\ st_section \in {[k \in 1..Len(st_pieces) |-> section] :
                          section \in {None, Some(SectionS)}}
    /\ st_chunks = <<>>
    /\ st_stages = <<>>
    /\ st_pc = "raw"
    /\ st_augmenter = DefaultAugmenter
    /\ st_merger = DefaultMerger

\* most segments of a list given to merge_chunks alone
MaxMergePieces == 3

\* a document for merge_chunks alone: every piece lies in a section of its
\* own choice, or in none
MgInit ==
    /\ st_pieces \in SeqsUpTo(StPieceTexts, MaxMergePieces)
    /\ st_section \in [1..Len(st_pieces) -> {None, Some(SectionS), Some(SectionT)}]
    /\ st_chunks = <<>>
    /\ st_stages = <<>>
    /\ st_pc = "raw"
    /\ st_augmenter = DefaultAugmenter
    /\ st_merger = DefaultMerger

\* the stages in the order the pipeline runs them; a stage may be left out
StageOrder == <<"base", "augment", "merge", "rechunk">>

StagePos(stage) == CHOOSE k \in 1..Len(StageOrder) : StageOrder[k] = stage

MayRun(stage) ==
    /\ st_pc = "ready"
    /\ \A k \in 1..Len(st_stages) : StagePos(st_stages[k]) < StagePos(stage)

\* AdvancedChunker.process_markdown_file, step 4
create_base_metadata ==
    /\ st_pc = "raw"
    /\ st_chunks' = BaseChunks(st_pieces, st_section)
    /\ st_stages' = <<"base">>
    /\ st_pc' = "ready"
    /\ UNCHANGED <<st_pieces, st_section, st_augmenter, st_merger,
                   sbVars, cacheVars, embVars, tbVars, sdVars, acVars, qfVars, scVars, prVars, ccVars, mwVars>>

\* AdvancedChunker.process_markdown_file, step 6 with the strategies
\* with_context and hybrid (lines 185-198): augment_chunk on every segment
augment_stage ==
    /\ MayRun("augment")
    /\ \E augmenter \in Augmenters :
        /\ st_augmenter' = augmenter
        /\ st_chunks' = [k \in 1..Len(st_chunks) |->
                            augment_chunk(st_chunks[k], augmenter, TRUE)]
    /\ st_stages' = Append(st_stages, "augment")
    /\ UNCHANGED <<st_pieces, st_section, st_pc, st_merger,
                   sbVars, cacheVars, embVars, tbVars, sdVars, acVars, qfVars, scVars, prVars, ccVars, mwVars>>

\* ChunkingService.chunk, step 2 (services.py line 323)
merge_stage ==
    /\ MayRun("merge")
    /\ \E merger \in Mergers :
        /\ st_merger' = merger
        /\ st_chunks' = merge_chunks(st_chunks, merger)
    /\ st_stages' = Append(st_stages, "merge")
    /\ UNCHANGED <<st_pieces, st_section, st_pc, st_augmenter,
                   sbVars, cacheVars, embVars, tbVars, sdVars, acVars, qfVars, scVars, prVars, ccVars, mwVars>>

\* TokenBasedChunker(sizes).rechunk_with_tokens(segments, ceiling) is
\* called on the list, with an overlap below the size: the call returns
rechunk_stage_call ==
    /\ MayRun("rechunk")
    /\ tb_pc = "idle"
    /\ chunk_size_tokens' \in 1..MaxSizeTokens
    /\ chunk_overlap_tokens' \in 0..(chunk_size_tokens' - 1)
    /\ max_tokens_per_chunk' \in 1..MaxSizeTokens
    /\ tb_chunks' = st_chunks
    /\ tb_pc' = "rechunk"
    /\ st_pc' = "rechunking"
    /\ UNCHANGED <<tb_k, rechunked, ct_tokens, ct_i, ct_chunks, ct_turn,
                   st_pieces, st_section, st_chunks, st_stages, st_augmenter, st_merger,
                   sbVars, cacheVars, embVars, sdVars, acVars, qfVars, scVars, prVars, ccVars, mwVars>>

\* the list rechunk_with_tokens returned replaces the segments
rechunk_stage_return ==
    /\ st_pc = "rechunking"
    /\ tb_pc = "done"
    /\ st_chunks' = rechunked
    /\ st_stages' = Append(st_stages, "rechunk")
    /\ st_pc' = "ready"
    /\ tb_pc' = "idle"
    /\ UNCHANGED <<tbConfig, tb_k, rechunked, ct_tokens, ct_i, ct_chunks, ct_turn,
                   st_pieces, st_section, st_augmenter, st_merger,
                   sbVars, cacheVars, embVars, sdVars, acVars, qfVars, scVars, prVars, ccVars, mwVars>>

(***************************************************************************)
(* ChunkQualityFilter  (src/processors/chunk_quality_filter.py)            *)
(*                                                                         *)
(* A score is a decimal number counted in units of 1/ScoreOne: the         *)
(* products of the penalty factors are exact.  The floating-point products *)
(* of the code differ from them by rounding only, which changes no         *)
(* comparison with the thresholds drawn here.                              *)
(***************************************************************************)
\* most blocks of a content, and the longest list handed to filter_chunks
MaxRuns == 2
MaxQfChunks == 2

\* the score 1.0 (line 54)
ScoreOne == 10000000

\* a letter outside ASCII, such as U+00E9
NonAsciiLetter == "e-acute"

\* the characters \w matches
WordChars == UpperLetters \cup LowerLetters \cup {"_", "0", "1", NonAsciiLetter}

\* how many characters of the content are members of S
CountChars(content, S) == Cardinality({p \in 1..Len(content) : content[p] \in S})

\* len(re.findall(r'[^\w\s]', content))
SpecialCount(content) ==
    Cardinality({p \in 1..Len(content) : content[p] \notin WordChars \cup Whitespace})

\* content.split(): the positions where a word starts, and the word there
WordStarts(content) ==
    {p \in 1..Len(content) :
        /\ content[p] \notin Whitespace
        /\ (p = 1 \/ content[p - 1] \in Whitespace)}

WordAt(content, p) ==
    LET ends == {q \in p..Len(content) :
                    q = Len(content) \/ content[q + 1] \in Whitespace}
    IN  SubSeq(content, p, CHOOSE q \in ends : \A r \in ends : q <= r)

WordCount(content) == Cardinality(WordStarts(content))

\* len(set(words))
UniqueWordCount(content) ==
    Cardinality({WordAt(content, p) : p \in WordStarts(content)})

\* content.count('\n\n\n'): the matches, found from left to right, do not
\* overlap, so a match starts at every third newline of a run that has two
\* more newlines after it
EmptyLines(content) ==
    LET isNl(p) == p \in 1..Len(content) /\ content[p] = "\n"
        runStart(p) == CHOOSE q \in 1..p :
                           /\ \A r \in q..p : isNl(r)
                           /\ ~isNl(q - 1)
    IN  Cardinality({p \in 1..Len(content) :
            /\ isNl(p) /\ isNl(p + 1) /\ isNl(p + 2)
            /\ (p - runStart(p)) % 3 = 0})

\* score *= factor, the factor given in tenths
Penalize(score, tenths, condition) ==
    IF condition THEN (score * tenths) \div 10 ELSE score

\* mutant: a content of exactly the minimum length is penalised too
LengthPenaltyInclusive(score, content, filter) ==
    IF Len(content) <= filter.min_length THEN Penalize(score, 3, TRUE)
    ELSE Penalize(score, 7, Len(content) > filter.max_length)

\* lines 57-60: the penalty for the length
LengthPenalty(score, content, filter) ==
    IF Len(content) < filter.min_length THEN Penalize(score, 3, TRUE)
    ELSE Penalize(score, 7, Len(content) > filter.max_length)

\* ChunkQualityFilter.score_chunk(chunk) for the content of the chunk
\* (lines 48-98)
ScoreChunk(content, filter) ==
    IF content = <<>> THEN 0
    ELSE
        LET n == Len(content)
            s1 == LengthPenalty(ScoreOne, content, filter)
            s2 == Penalize(s1, 5, WordCount(content) < filter.min_words)
            s3 == Penalize(s2, 4, filter.filter_noise
                                    /\ SpecialCount(content) * 10 > 3 * n)
            s4 == Penalize(s3, 6, CountChars(content, UpperLetters) * 2 > n /\ n < 200)
            s5 == Penalize(s4, 3, WordCount(content) > 0
                                    /\ UniqueWordCount(content) * 10 < 3 * WordCount(content))
            s6 == Penalize(s5, 7, EmptyLines(content) > 3)
            s7 == Penalize(s6, 8, CountChars(content, {NonAsciiLetter}) * 2 > n /\ n < 100)
        IN  Min(ScoreOne, Max(0, s7))

\* mutant: a segment is kept only above the threshold
KeepsStrictlyAbove(score, threshold) == score > threshold

\* line 122: the segment is kept
Keeps(score, threshold) == score >= threshold

\* the for loop of filter_chunks (lines 118-129) from chunk k on: the pair
\* of the kept and the filtered chunks
RECURSIVE FilterLoop(_, _, _, _)
FilterLoop(chunks, k, filter, threshold) ==
    IF k > Len(chunks) THEN [kept |-> <<>>, filtered |-> <<>>]
    ELSE
        LET score == ScoreChunk(chunks[k].content, filter)
            chunk == [chunks[k] EXCEPT !.quality_score = Some(score)]
            rest == FilterLoop(chunks, k + 1, filter, threshold)
        IN  IF Keeps(score, threshold)
            THEN [rest EXCEPT !.kept = <<chunk>> \o @]
            ELSE [rest EXCEPT !.filtered = <<chunk>> \o @]

\* a run of n characters c
Run(c, n) == [k \in 1..n |-> c]

\* the blocks contents are made of: single characters of each class, a
\* repeated word, a run of blank lines, runs that pass the lengths 100 and
\* 200 of lines 77 and 94
QfBlocks ==
    { <<"a">>, <<"A">>, <<"!">>, <<NonAsciiLetter>>,
      <<"a", " ", "a", " ", "a", " ", "a", " ">>,
      Run("\n", 12), Run("A", 100), Run(NonAsciiLetter, 50) }

QfContents == {Flatten(bs) : bs \in SeqsUpTo(QfBlocks, MaxRuns)}

QfChunk(content, k) ==
    [content |-> content, chunk_index |-> <<k - 1>>, quality_score |-> None]

\* the lists handed to the filter: one segment of any content, or up to
\* MaxQfChunks segments of one block each
QfLists ==
    { <<QfChunk(c, 1)>> : c \in QfContents }
        \cup { [k \in 1..Len(cs) |-> QfChunk(cs[k], k)] : cs \in SeqsUpTo(QfBlocks, MaxQfChunks) }

\* ChunkQualityFilter.__init__ (lines 33-36)
QfFilters ==
    [min_length : {0, 2}, max_length : {8, 1000}, min_words : {0, 2},
     filter_noise : BOOLEAN]

\* the thresholds 0, 0.15, 0.5 and 1
QfThresholds == {0, 15 * (ScoreOne \div 100), ScoreOne \div 2, ScoreOne}

QfIdle ==
    /\ qf_filter = [min_length |-> 0, max_length |-> 1000, min_words |-> 0,
                    filter_noise |-> TRUE]
    /\ qf_chunks = <<>>
    /\ min_quality = 0
    /\ kept_chunks = <<>>
    /\ filtered_chunks = <<>>
    /\ qf_score = None
    /\ qf_pc = "idle"

QfInit ==
    /\ qf_filter \in QfFilters
    /\ qf_chunks \in QfLists
    /\ min_quality = 0
    /\ kept_chunks = <<>>
    /\ filtered_chunks = <<>>
    /\ qf_score = None
    /\ qf_pc = "ready"

\* ChunkQualityFilter.score_chunk called on the first segment of the list
score_chunk ==
    /\ qf_pc = "ready"
    /\ qf_chunks # <<>>
    /\ qf_score' = Some(ScoreChunk(qf_chunks[1].content, qf_filter))
    /\ qf_pc' = "scored"
    /\ UNCHANGED <<qf_filter, qf_chunks, min_quality, kept_chunks, filtered_chunks,
                   sbVars, cacheVars, embVars, tbVars, sdVars, acVars, stVars, scVars, prVars, ccVars, mwVars>>

\* ChunkQualityFilter.filter_chunks(chunks, min_quality); the segments of
\* the list are the ones returned, with their score written
filter_chunks ==
    /\ qf_pc = "ready"
    /\ \E threshold \in QfThresholds :
        LET out == FilterLoop(qf_chunks, 1, qf_filter, threshold)
        IN  /\ min_quality' = threshold
            /\ kept_chunks' = out.kept
            /\ filtered_chunks' = out.filtered
            /\ qf_chunks' = [k \in 1..Len(qf_chunks) |->
                   [qf_chunks[k] EXCEPT !.quality_score =
                        Some(ScoreChunk(qf_chunks[k].content, qf_filter))]]
    /\ qf_pc' = "filtered"
    /\ UNCHANGED <<qf_filter, qf_score,
                   sbVars, cacheVars, embVars, tbVars, sdVars, acVars, stVars, scVars, prVars, ccVars, mwVars>>

(***************************************************************************)
(* Augmentation of segments that may already be augmented:                 *)
(* ContextualAugmenter.augment_batch and the embedding_optimized strategy   *)
(* of AdvancedChunker (src/processors/contextual_augmenter.py,             *)
(* src/processors/advanced_chunker.py, src/processors/metadata_enricher.py) *)
(***************************************************************************)
\* how many times augment_batch is called on a list
MaxAugments == 2

\* the stop words that can be written with the letters of the pieces
stop_words == { <<"c", "e", "t", "t", "e">> }

\* the matches of  \b[a-zA-Z...]{4,}\b : the maximal runs of word
\* characters that are made of letters only, by the position of their start
KeywordStarts(text) ==
    {p \in 1..Len(text) :
        /\ text[p] \in WordChars
        /\ (p = 1 \/ text[p - 1] \notin WordChars)}

KeywordAt(text, p) ==
    LET ends == {q \in p..Len(text) : q = Len(text) \/ text[q + 1] \notin WordChars}
    IN  SubSeq(text, p, CHOOSE q \in ends : \A r \in ends : q <= r)

\* the words sorted by falling frequency, the first met first among equals
RECURSIVE SortedWords(_, _)
SortedWords(text, starts) ==
    IF starts = {} THEN <<>>
    ELSE
        LET Freq(p) == Cardinality({q \in starts : KeywordAt(text, q) = KeywordAt(text, p)})
            best == CHOOSE p \in starts :
                        \A q \in starts :
                            \/ Freq(q) < Freq(p)
                            \/ (Freq(q) = Freq(p) /\ p <= q)
        IN  <<KeywordAt(text, best)>>
                \o SortedWords(text, {q \in starts :
                                         KeywordAt(text, q) # KeywordAt(text, best)})

\* MetadataEnricher.extract_keywords_basic(text) (lines 52-74); the pieces
\* hold no upper-case letter, which text.lower() would change
extract_keywords_basic(text) ==
    LET words == {p \in KeywordStarts(text) :
                    LET word == KeywordAt(text, p)
                    IN  /\ \A k \in 1..Len(word) :
                              word[k] \in LowerLetters \cup {NonAsciiLetter}
                        /\ Len(word) > 3
                        /\ word \notin stop_words}
        sorted_words == SortedWords(text, words)
    IN  SubSeq(sorted_words, 1, Min(5, Len(sorted_words)))

\* ContextualAugmenter.create_embedding_optimized_text(chunk) (lines
\* 131-166); the keywords are those the enrichment of step 5 has just taken
\* from this content, and no segment carries topics, document_type or
\* summary, which the language model of the enrichment writes
create_embedding_optimized_text(chunk) ==
    LET section ==
            IF chunk.section_hierarchy_string \notin {None, Some(<<>>)}
            THEN << <<"[", "S", "e", "c", "t", "i", "o", "n", ":", " ">>
                      \o chunk.section_hierarchy_string[1] \o <<"]">> >>
            ELSE <<>>
        keywords == extract_keywords_basic(chunk.content)
        kw ==
            IF keywords # <<>>
            THEN << <<"[", "M", "o", "t", "s", "-", "c", "l", NonAsciiLetter, "s", ":", " ">>
                      \o JoinWith(keywords, <<",", " ">>) \o <<"]">> >>
            ELSE <<>>
        prefix == JoinWith(section \o kw, <<" ">>)
    IN  IF prefix # <<>> THEN prefix \o <<"\n", "\n">> \o chunk.content
        ELSE chunk.content

\* how many of the stages run so far are the given one
StageCount(stage) == Cardinality({k \in 1..Len(st_stages) : st_stages[k] = stage})

\* ContextualAugmenter.augment_batch(chunks) (lines 103-118) with the
\* default preserve_original, on a list that may have been augmented or
\* rewritten before
augment_batch ==
    /\ st_pc = "ready"
    /\ StageCount("augment") < MaxAugments
    /\ \E augmenter \in Augmenters :
        /\ st_augmenter' = augmenter
        /\ st_chunks' = [k \in 1..Len(st_chunks) |->
                            augment_chunk(st_chunks[k], augmenter, TRUE)]
    /\ st_stages' = Append(st_stages, "augment")
    /\ UNCHANGED <<st_pieces, st_section, st_pc, st_merger,
                   sbVars, cacheVars, embVars, tbVars, sdVars, acVars, qfVars, scVars, prVars, ccVars, mwVars>>

\* AdvancedChunker.process_markdown_file, step 6 with the strategy
\* embedding_optimized (lines 189-195), on the segments of step 4
embedding_optimized_stage ==
    /\ st_pc = "ready"
    /\ st_stages = <<"base">>
    /\ st_chunks' = [k \in 1..Len(st_chunks) |->
                        [st_chunks[k] EXCEPT
                            !.content = create_embedding_optimized_text(st_chunks[k]),
                            !.original_content = Some(st_chunks[k].content)]]
    /\ st_stages' = Append(st_stages, "optimize")
    /\ UNCHANGED <<st_pieces, st_section, st_pc, st_augmenter, st_merger,
                   sbVars, cacheVars, embVars, tbVars, sdVars, acVars, qfVars, scVars, prVars, ccVars, mwVars>>

(***************************************************************************)
(* ContentTypeDetector  (src/processors/chunking_strategies.py)            *)
(*                                                                         *)
(* A score is a fraction: the quotient of two line counts, or one of the   *)
(* constants of _score_code in tenths.  The floating-point quotients of    *)
(* the code compare with 0.2, 0.3 and 0.5 as the fractions do.             *)
(***************************************************************************)
\* most lines of a text given to the detector
MaxDtLines == 4

Digits == {"0", "1"}

Fraction(num, den) == [num |-> num, den |-> den]

\* a < b  and  a >= b  for fractions with positive denominators
Less(a, b) == a.num * b.den < b.num * a.den
AtLeast(a, b) == ~Less(a, b)

MaxFraction(a, b) == IF Less(a, b) THEN b ELSE a

\* sum(1 for line in lines if condition)
CountLines(lines, Condition(_)) ==
    Cardinality({k \in 1..Len(lines) : Condition(lines[k])})

\* ContentTypeDetector._score_table(text) (lines 65-83)
score_table(text) ==
    LET lines == SplitLines(text, <<>>)
        table_lines == CountLines(lines, LAMBDA line : CountChars(line, {"|"}) >= 2)
        tab_lines == CountLines(lines, LAMBDA line : CountChars(line, {"\t"}) >= 2)
        total_lines == CountLines(lines, LAMBDA line : Strip(line) # <<>>)
    IN  IF total_lines = 0 THEN Fraction(0, 1)
        ELSE Fraction(Max(table_lines, tab_lines), total_lines)

\* re.match(r'^\s*[-*+]\s+', line)
IsMarkdownItem(line) ==
    LET k == PrefixIn(line, Whitespace) + 1
    IN  /\ k + 1 <= Len(line)
        /\ line[k] \in {"-", "*", "+"}
        /\ line[k + 1] \in Whitespace

\* re.match(r'^\s*\d+\.\s+', line)
IsNumberedItem(line) ==
    LET k == PrefixIn(line, Whitespace) + 1
        d == PrefixIn(SubSeq(line, k, Len(line)), Digits)
    IN  /\ d >= 1
        /\ k + d + 1 <= Len(line)
        /\ line[k + d] = "."
        /\ line[k + d + 1] \in Whitespace

\* ContentTypeDetector._score_list(text) (lines 88-100)
score_list(text) ==
    LET lines == SplitLines(text, <<>>)
        non_empty == SelectSeq(lines, LAMBDA line : Strip(line) # <<>>)
        markdown_list == CountLines(non_empty, IsMarkdownItem)
        numbered_list == CountLines(non_empty, IsNumberedItem)
    IN  IF non_empty = <<>> THEN Fraction(0, 1)
        ELSE Fraction(Max(markdown_list, numbered_list), Len(non_empty))

\* len(re.findall(r'`[^`]+`', text)) from position p on: a match starts at
\* a backquote that is followed by another character and has a later
\* backquote, ends at the first such backquote, and the search goes on
\* after it
RECURSIVE CodeSpans(_, _)
CodeSpans(text, p) ==
    LET opening == {q \in p..(Len(text) - 2) :
                        text[q] = Backquote /\ text[q + 1] # Backquote}
    IN  IF opening = {} THEN 0
        ELSE
            LET q == CHOOSE q \in opening : \A r \in opening : q <= r
                closing == {r \in (q + 2)..Len(text) : text[r] = Backquote}
            IN  IF closing = {} THEN 0
                ELSE 1 + CodeSpans(text, (CHOOSE r \in closing :
                                            \A u \in closing : r <= u) + 1)

\* line.startswith('    ') or line.startswith('\t')
IsIndented(line) ==
    \/ Len(line) >= 4 /\ SubSeq(line, 1, 4) = <<" ", " ", " ", " ">>
    \/ Len(line) >= 1 /\ line[1] = "\t"

\* ContentTypeDetector._score_code(text) (lines 105-120)
score_code(text) ==
    LET lines == SplitLines(text, <<>>)
        indented_lines == CountLines(lines, IsIndented)
    IN  IF FindSep(text, <<Backquote, Backquote, Backquote>>) # 0 THEN Fraction(9, 10)
        ELSE IF CodeSpans(text, 1) > 3 THEN Fraction(6, 10)
        ELSE IF 10 * indented_lines > 5 * Len(lines) THEN Fraction(7, 10)
        ELSE Fraction(0, 1)

\* max(scores.values())
MaxScore(text) ==
    MaxFraction(MaxFraction(score_table(text), score_list(text)), score_code(text))

\* detect_content_type that looks at the list score before the table score
DetectContentTypeListFirst(text) ==
    LET table_score == score_table(text)
        list_score == score_list(text)
        code_score == score_code(text)
        max_score == MaxScore(text)
    IN  IF Less(max_score, Fraction(2, 10)) THEN "narrative"
        ELSE IF AtLeast(list_score, Fraction(3, 10)) THEN "list"
        ELSE IF AtLeast(table_score, Fraction(3, 10)) THEN "table"
        ELSE IF AtLeast(code_score, Fraction(3, 10)) THEN "code"
        ELSE IF Less(max_score, Fraction(5, 10)) THEN "mixed"
        ELSE IF ~Less(table_score, max_score) THEN "table"
        ELSE IF ~Less(list_score, max_score) THEN "list"
        ELSE "code"

\* ContentTypeDetector.detect_content_type(text) (lines 35-60);
\* max(scores, key=scores.get) is the first key, in the order table, list,
\* code, that has the greatest score
DetectContentType(text) ==
    LET table_score == score_table(text)
        list_score == score_list(text)
        code_score == score_code(text)
        max_score == MaxScore(text)
    IN  IF Less(max_score, Fraction(2, 10)) THEN "narrative"
        ELSE IF AtLeast(table_score, Fraction(3, 10)) THEN "table"
        ELSE IF AtLeast(list_score, Fraction(3, 10)) THEN "list"
        ELSE IF AtLeast(code_score, Fraction(3, 10)) THEN "code"
        ELSE IF Less(max_score, Fraction(5, 10)) THEN "mixed"
        ELSE IF ~Less(table_score, max_score) THEN "table"
        ELSE IF ~Less(list_score, max_score) THEN "list"
        ELSE "code"

\* the text of two table rows
TwoRows ==
    <<"|", " ", "a", " ", "|", " ", "b", " ", "|", "\n",
      "|", " ", "c", " ", "|", " ", "d", " ", "|", "\n">>

\* the lines texts are made of: blank, tabs only, plain, a table row, a
\* bullet item, a numbered item, a line of two code spans, a code fence
DtLineKinds ==
    { <<>>, <<"\t", "\t">>, <<"a">>,
      <<"|", " ", "a", " ", "|", " ", "b", " ", "|">>,
      <<"-", " ", "a">>, <<"1", ".", " ", "a">>,
      <<Backquote, "a", Backquote, " ", Backquote, "b", Backquote>>,
      <<Backquote, Backquote, Backquote>> }

\* the two rows, a tab-separated row and a line indented by four blanks
DtOtherTexts ==
    { TwoRows, <<"a", "\t", "b", "\t", "c">>, <<" ", " ", " ", " ", "a">> }

DtTexts ==
    {JoinLines(lines) : lines \in SeqsUpTo(DtLineKinds, MaxDtLines)} \cup DtOtherTexts

\* a text whose content type is not given
DtInit ==
    /\ ac_text \in DtTexts
    /\ ac_type = "undetected"
    /\ ac_pieces = <<>>
    /\ ac_pc = "untyped"

\* AdvancedChunker.process_markdown_file, line 114 (and chunk_text, lines
\* 171-172): the content type of the text is detected
detect_content_type ==
    /\ ac_pc = "untyped"
    /\ ac_type' = DetectContentType(ac_text)
    /\ ac_pc' = "ready"
    /\ UNCHANGED <<ac_text, ac_pieces, sbVars, cacheVars, embVars, tbVars, sdVars, stVars, qfVars, scVars, prVars, ccVars, mwVars>>

(***************************************************************************)
(* SemanticChunker  (src/processors/chunking_strategies.py)                *)
(*                                                                         *)
(* The sizes are counted in units of SizeUnit characters, as those of the  *)
(* AdaptiveChunker are.                                                    *)
(***************************************************************************)
\* most lines of a text given to chunk_by_sections
MaxScLines == 4

\* line.strip().startswith('#')
IsTitleLine(line) == Strip(line) # <<>> /\ Head(Strip(line)) = "#"

\* what  if current_section and current_content  appends to chunks (lines
\* 224-227 and 236-239)
SavedSection(current_section, current_content) ==
    IF current_section # None /\ current_content # <<>>
    THEN LET content == Strip(JoinLines(current_content))
         IN  IF content # <<>>
             THEN << [title |-> current_section[1], content |-> content] >>
             ELSE <<>>
    ELSE <<>>

\* the for loop of chunk_by_sections from line k on, and the save of the
\* last section (lines 221-239)
RECURSIVE SectionLoop(_, _, _, _)
SectionLoop(lines, k, current_section, current_content) ==
    IF k > Len(lines) THEN SavedSection(current_section, current_content)
    ELSE IF IsTitleLine(lines[k])
    THEN SavedSection(current_section, current_content)
            \o SectionLoop(lines, k + 1, Some(Strip(lines[k])), <<lines[k]>>)
    ELSE SectionLoop(lines, k + 1, current_section, Append(current_content, lines[k]))

DigitChars == <<"0", "1", "2", "3", "4", "5", "6", "7", "8", "9">>

\* str(n) for a natural number n
RECURSIVE Decimal(_)
Decimal(n) ==
    IF n < 10 THEN <<DigitChars[n + 1]>>
    ELSE Decimal(n \div 10) \o <<DigitChars[(n % 10) + 1]>>

\* SemanticChunker._split_large_chunk(content, base_title) (lines 300-313)
split_large_chunk(content, base_title, max_chunk_size) ==
    LET sub_texts ==
            SplitText(content,
                      << <<"\n", "\n">>, <<"\n">>, <<".", " ">>, <<" ">>, <<>> >>,
                      max_chunk_size, 200 \div SizeUnit)
    IN  [i \in 1..Len(sub_texts) |->
            [title |-> base_title \o <<" ", "(", "p", "a", "r", "t", "i", "e", " ">>
                          \o Decimal(i) \o <<")">>,
             content |-> sub_texts[i]]]

\* f"{title} / {next_title}" with the title of the second section left out
MergedTitleFirstOnly(title, next_title) == title

\* f"{title} / {next_title}"
MergedTitle(title, next_title) == title \o <<" ", "/", " ">> \o next_title

\* the while loop of _merge_small_chunks from index i on (lines 266-284)
RECURSIVE MergeSmallLoop(_, _, _, _)
MergeSmallLoop(chunks, i, min_chunk_size, max_chunk_size) ==
    IF i >= Len(chunks) THEN <<>>
    ELSE
        LET title == chunks[i + 1].title
            content == chunks[i + 1].content
            content_len == Len(content)
        IN  IF content_len < min_chunk_size /\ i + 1 < Len(chunks)
            THEN << [title |-> MergedTitle(title, chunks[i + 2].title),
                     content |-> content \o <<"\n", "\n">> \o chunks[i + 2].content] >>
                    \o MergeSmallLoop(chunks, i + 2, min_chunk_size, max_chunk_size)
            ELSE (IF content_len > max_chunk_size
                  THEN split_large_chunk(content, title, max_chunk_size)
                  ELSE << [title |-> title, content |-> content] >>)
                    \o MergeSmallLoop(chunks, i + 1, min_chunk_size, max_chunk_size)

\* SemanticChunker.chunk_by_sections(text) (lines 216-244)
ChunkBySections(text, min_chunk_size, max_chunk_size) ==
    MergeSmallLoop(SectionLoop(SplitLines(text, <<>>), 1, None, <<>>), 0,
                   min_chunk_size, max_chunk_size)

\* a document of two sections, the first with a short body
ScenarioText ==
    <<"#", " ", "A", "\n", "\n", "s", "h", "o", "r", "t", "\n", "\n",
      "#", "#", " ", "B", "\n", "\n", "l", "o", "n", "g", "e", "r",
      " ", "c", "o", "n", "t", "e", "n", "t", " ", "h", "e", "r",
      "e", "\n">>

\* the lines texts are made of: two title lines, a short line, a line
\* longer than the default maximum, a blank line
ScLineKinds ==
    { <<"#", " ", "A">>, <<"#", "#", " ", "B">>, <<"s">>,
      Repeat("x", (1500 \div SizeUnit) + 1), <<>> }

ScTexts ==
    {JoinLines(lines) : lines \in SeqsUpTo(ScLineKinds, MaxScLines)} \cup {ScenarioText}

ScIdle ==
    /\ sc_min_chunk_size = 300 \div SizeUnit
    /\ sc_max_chunk_size = 1500 \div SizeUnit
    /\ sc_text = <<>>
    /\ sc_chunks = <<>>
    /\ sc_pc = "idle"

\* SemanticChunker(min_chunk_size, max_chunk_size): the defaults and other
\* sizes, the maximum not below the overlap of _split_large_chunk
ScInit ==
    /\ sc_min_chunk_size \in {300 \div SizeUnit, 6, 12}
    /\ sc_max_chunk_size \in {1500 \div SizeUnit, 30}
    /\ sc_text \in ScTexts
    /\ sc_chunks = <<>>
    /\ sc_pc = "ready"

\* one call of chunk_by_sections (advanced_chunker.py line 105)
chunk_by_sections ==
    /\ sc_pc = "ready"
    /\ sc_chunks' = ChunkBySections(sc_text, sc_min_chunk_size, sc_max_chunk_size)
    /\ sc_pc' = "done"
    /\ UNCHANGED <<sc_min_chunk_size, sc_max_chunk_size, sc_text,
                   sbVars, cacheVars, embVars, tbVars, sdVars, acVars, stVars, qfVars, prVars, ccVars, mwVars>>

(***************************************************************************)
(* Section lookups, annotation and the ChunkPrioritizer                    *)
(* (src/processors/section_detector.py, src/processors/chunk_prioritizer.py) *)
(***************************************************************************)
\* most lines of a document that is annotated
MaxPrLines == 2

\* Python's None stored under the keys section_level and section_title
\* (section_detector.py lines 227-228); no heading has level 0.  A key
\* that is absent from the metadata is None here, as in BaseChunks.
NoneLevel == 0
NoneTitle == <<"None">>

\* the sections of the list whose range of lines holds line_num
MatchingSections(secs, line_num) ==
    {i \in 1..Len(secs) : secs[i].start_line <= line_num /\ line_num <= secs[i].end_line}

\* SectionDetector.get_section_at_line(line_num): the last section of the
\* list whose range holds the line, 0 for None
get_section_at_line(secs, line_num) ==
    LET matching == MatchingSections(secs, line_num)
    IN  IF matching = {} THEN 0
        ELSE CHOOSE i \in matching : \A j \in matching : j <= i

\* text[:position].count('\n')
LineOfPosition(text, position) ==
    Cardinality({k \in 1..Min(position, Len(text)) : text[k] = "\n"})

\* SectionDetector.get_section_for_text_position(text, position)
get_section_for_text_position(secs, text, position) ==
    get_section_at_line(secs, LineOfPosition(text, position))

\* SectionDetector.get_deepest_section_at_line(line_num): the first section
\* of the greatest level among the matching ones, 0 for None
get_deepest_section_at_line(secs, line_num) ==
    LET matching == MatchingSections(secs, line_num)
    IN  IF matching = {} THEN 0
        ELSE CHOOSE i \in matching :
                \A j \in matching :
                    \/ secs[j].level < secs[i].level
                    \/ secs[j].level = secs[i].level /\ i <= j

\* Section.get_hierarchy_string(): the titles from the root down to the
\* section, joined by " > "
RECURSIVE get_hierarchy_string(_, _)
get_hierarchy_string(secs, i) ==
    IF secs[i].parent = 0 THEN secs[i].title
    ELSE get_hierarchy_string(secs, secs[i].parent)
            \o <<" ", ">", " ">> \o secs[i].title

\* the section found for a segment that starts at char_position, as the
\* record the metadata is filled from; None for no section
SectionFound(secs, text, char_position) ==
    LET i == get_section_for_text_position(secs, text, char_position)
    IN  IF i = 0 THEN None
        ELSE Some([title |-> secs[i].title, level |-> secs[i].level,
                   hierarchy_string |-> get_hierarchy_string(secs, i)])

\* char_position of segment i: the lengths of the segments before it
RECURSIVE CharPosition(_, _)
CharPosition(chunks_text, i) ==
    IF i <= 1 THEN 0
    ELSE CharPosition(chunks_text, i - 1) + Len(chunks_text[i - 1])

\* the metadata of advanced_chunker.py lines 137-168 with the keys of the
\* later stages: the section keys are present only when a section is found
WithStageKeys(chunks) ==
    [i \in 1..Len(chunks) |->
        chunks[i] @@ [quality_score |-> None, priority_score |-> None]]

\* add_section_context_to_chunks, lines 221-231: the section keys are
\* always written, with None and '' when there is no section
SectionContext(chunk, section) ==
    IF section # None THEN chunk
    ELSE [chunk EXCEPT !.section_title = Some(NoneTitle),
                       !.section_level = Some(NoneLevel),
                       !.section_hierarchy_string = Some(<<>>)]

\* the document cut into segments at the given positions
CutText(text, cut) ==
    IF cut = 0 \/ cut >= Len(text) THEN <<text>>
    ELSE <<SubSeq(text, 1, cut), SubSeq(text, cut + 1, Len(text))>>

PrTexts == {JoinLines(ls) : ls \in SeqsUpTo(SdLineKinds, MaxPrLines)} \ {<<>>}

\* ChunkMerger(), ChunkQualityFilter() and ContextualAugmenter() as
\* ChunkingService and AdvancedChunker build them
PrMerger ==
    [min_chunk_size |-> 300, max_chunk_size |-> 1500, merge_strategy |-> "sequential"]
PrFilter ==
    [min_length |-> 50, max_length |-> 2000, min_words |-> 10, filter_noise |-> TRUE]

PrIdle ==
    /\ pr_chunks = <<>>
    /\ pr_stages = <<>>
    /\ pr_pc = "idle"
    /\ pr_error = None

PrInit ==
    /\ sd_text \in PrTexts
    /\ sections = <<>>
    /\ sd_pc = "ready"
    /\ pr_chunks = <<>>
    /\ pr_stages = <<>>
    /\ pr_pc = "ready"
    /\ pr_error = None

\* SectionDetector.add_section_context_to_chunks(chunks, document_text)
\* (lines 193-243): the document is parsed and every segment receives the
\* section found at its position
add_section_context_to_chunks ==
    \E cut \in 0..Len(sd_text) :
        LET chunks_text == CutText(sd_text, cut)
            secs == ParseDocument(sd_text)
            section == [i \in 1..Len(chunks_text) |->
                           SectionFound(secs, sd_text, CharPosition(chunks_text, i))]
            base == WithStageKeys(BaseChunks(chunks_text, section))
        IN  /\ pr_pc = "ready"
            /\ sections' = secs
            /\ sd_pc' = "parsed"
            /\ pr_chunks' = [i \in 1..Len(base) |-> SectionContext(base[i], section[i])]
            /\ pr_pc' = "annotated"
            /\ UNCHANGED <<sd_text, pr_stages, pr_error, sbVars, cacheVars, embVars,
                           tbVars, acVars, stVars, qfVars, scVars, ccVars, mwVars>>

\* AdvancedChunker.process_markdown_file, lines 74 and 137-168: the document
\* is parsed and the section keys are set for the segments that have one
base_metadata_with_sections ==
    \E cut \in 0..Len(sd_text) :
        LET chunks_text == CutText(sd_text, cut)
            secs == ParseDocument(sd_text)
            section == [i \in 1..Len(chunks_text) |->
                           SectionFound(secs, sd_text, CharPosition(chunks_text, i))]
        IN  /\ pr_pc = "ready"
            /\ sections' = secs
            /\ sd_pc' = "parsed"
            /\ pr_chunks' = WithStageKeys(BaseChunks(chunks_text, section))
            /\ pr_pc' = "annotated"
            /\ UNCHANGED <<sd_text, pr_stages, pr_error, sbVars, cacheVars, embVars,
                           tbVars, acVars, stVars, qfVars, scVars, ccVars, mwVars>>

\* the order in which the stages are written: step 6 of
\* process_markdown_file (advanced_chunker.py lines 171-196), which
\* ChunkingService.chunk calls first (services.py lines 275-285), then steps
\* 1 to 4 of ChunkingService.chunk (lines 310-344); each runs when its
\* setting is on
PrStageOrder == <<"augment", "token_count", "merge", "filter", "prioritize">>

PrStagePos(stage) == CHOOSE k \in 1..Len(PrStageOrder) : PrStageOrder[k] = stage

PrMayRun(stage) ==
    /\ pr_pc = "annotated"
    /\ pr_error = None
    /\ \A k \in 1..Len(pr_stages) : PrStagePos(pr_stages[k]) < PrStagePos(stage)

\* ContextualAugmenter.augment_batch on the annotated segments
augment_annotated ==
    /\ PrMayRun("augment")
    /\ pr_chunks' = [k \in 1..Len(pr_chunks) |->
                        augment_chunk(pr_chunks[k], DefaultAugmenter, TRUE)]
    /\ pr_stages' = Append(pr_stages, "augment")
    /\ UNCHANGED <<pr_pc, pr_error, sbVars, cacheVars, embVars, tbVars, sdVars, acVars,
                   stVars, qfVars, scVars, ccVars, mwVars>>

\* ChunkingService.chunk, step 1 (services.py lines 311-317): the token
\* count of every segment is written to its metadata
token_count_annotated ==
    /\ PrMayRun("token_count")
    /\ pr_chunks' = [k \in 1..Len(pr_chunks) |->
                        [pr_chunks[k] EXCEPT !.token_count =
                            Some(get_token_count(pr_chunks[k].content))]]
    /\ pr_stages' = Append(pr_stages, "token_count")
    /\ UNCHANGED <<pr_pc, pr_error, sbVars, cacheVars, embVars, tbVars, sdVars, acVars,
                   stVars, qfVars, scVars, ccVars, mwVars>>

\* ChunkMerger.merge_chunks on the annotated segments
merge_annotated ==
    /\ PrMayRun("merge")
    /\ pr_chunks' = merge_chunks(pr_chunks, PrMerger)
    /\ pr_stages' = Append(pr_stages, "merge")
    /\ UNCHANGED <<pr_pc, pr_error, sbVars, cacheVars, embVars, tbVars, sdVars, acVars,
                   stVars, qfVars, scVars, ccVars, mwVars>>

\* ChunkQualityFilter.filter_chunks on the annotated segments: the kept ones
\* go on
filter_annotated ==
    /\ PrMayRun("filter")
    /\ \E threshold \in {0, ScoreOne \div 2} :
          pr_chunks' = FilterLoop(pr_chunks, 1, PrFilter, threshold).kept
    /\ pr_stages' = Append(pr_stages, "filter")
    /\ UNCHANGED <<pr_pc, pr_error, sbVars, cacheVars, embVars, tbVars, sdVars, acVars,
                   stVars, qfVars, scVars, ccVars, mwVars>>

\* the words of _calculate_priority that raise the score (lines 57-60)
PriorityKeywords ==
    { <<"r", NonAsciiLetter, "s", "u", "m", NonAsciiLetter>>,
      <<"c", "o", "n", "c", "l", "u", "s", "i", "o", "n">>,
      <<"i", "n", "t", "r", "o", "d", "u", "c", "t", "i", "o", "n">>,
      <<"i", "m", "p", "o", "r", "t", "a", "n", "t">>,
      <<"a", "t", "t", "e", "n", "t", "i", "o", "n">>,
      <<"n", "o", "t", "e">>,
      <<"r", "e", "m", "a", "r", "q", "u", "e">>,
      <<"d", NonAsciiLetter, "f", "i", "n", "i", "t", "i", "o", "n">> }

\* str.lower() on the letters of the documents
LowerOf(c) ==
    CASE c = "A" -> "a" [] c = "B" -> "b" [] c = "C" -> "c" [] c = "D" -> "d"
      [] c = "E" -> "e" [] c = "F" -> "f" [] OTHER -> c

\* kw in content_lower
ContainsWord(content, kw) ==
    \E k \in 1..(Len(content) - Len(kw) + 1) :
        \A j \in 1..Len(kw) : LowerOf(content[k + j - 1]) = kw[j]

\* the comparison section_level <= 2 of line 53 raises TypeError when the
\* key section_level holds None
PriorityRaises(chunk) == chunk.section_level = Some(NoneLevel)

\* ChunkPrioritizer._calculate_priority(chunk) (lines 32-78), in units of
\* a tenth of ScoreOne: 1.0 is 10 * ScoreOne
calculate_priority(chunk) ==
    LET content == chunk.content
        title == IF chunk.section_title \in {None, Some(NoneTitle), Some(<<>>)}
                 THEN 0 ELSE 2 * ScoreOne
        section_level == IF chunk.section_level = None THEN 99
                         ELSE chunk.section_level[1]
        level == IF section_level <= 2 THEN 15 * (ScoreOne \div 10) ELSE 0
        words == IF \E kw \in PriorityKeywords : ContainsWord(content, kw)
                 THEN ScoreOne ELSE 0
        length == IF 200 <= Len(content) /\ Len(content) <= 1000 THEN ScoreOne ELSE 0
        quality == IF chunk.quality_score = None THEN ScoreOne \div 2
                   ELSE chunk.quality_score[1]
        digits == IF \E k \in 1..Len(content) : content[k] \in Digits
                  THEN ScoreOne \div 2 ELSE 0
        score == 5 * ScoreOne + title + level + words + length + quality + digits
    IN  Min(10 * ScoreOne, Max(0, score))

\* ChunkPrioritizer.prioritize_chunks(chunks) (lines 16-30): the score of
\* each segment is written until one raises
prioritize_chunks ==
    /\ PrMayRun("prioritize")
    /\ LET raising == {k \in 1..Len(pr_chunks) : PriorityRaises(pr_chunks[k])}
           first == IF raising = {} THEN Len(pr_chunks) + 1
                    ELSE CHOOSE k \in raising : \A j \in raising : k <= j
       IN  /\ pr_chunks' = [k \in 1..Len(pr_chunks) |->
                              IF k < first
                              THEN [pr_chunks[k] EXCEPT !.priority_score =
                                        Some(calculate_priority(pr_chunks[k]))]
                              ELSE pr_chunks[k]]
           /\ pr_error' = IF raising = {} THEN None ELSE Some("TypeError")
    /\ pr_stages' = Append(pr_stages, "prioritize")
    /\ UNCHANGED <<pr_pc, sbVars, cacheVars, embVars, tbVars, sdVars, acVars,
                   stVars, qfVars, scVars, ccVars, mwVars>>

(***************************************************************************)
(* EmbeddingCache under concurrent workers  (src/core/cache.py)            *)
(***************************************************************************)
\* workers that call set and get for one (text, model) key
NumWorkers == 2
\* characters the file object hands to the operating system in one write;
\* the text of an entry is longer than the buffer of the file object
BufferSize == 4

\* the vectors written, as the texts of their components
CcVectors == { <<"1", "2">>, <<"3", "4">>, <<"5">> }

\* the fields 'hash' and 'model' of the key, as they stand in the file
HashField == "h"
ModelField == "m"
\* the bytes of a file between its end and a write beyond its end
Hole == "nul"

DimensionField(n) == IF n = 1 THEN "d1" ELSE IF n = 2 THEN "d2" ELSE "dn"

\* json.dump(data, f) of lines 111-119: the text of the entry
JsonDump(embedding) ==
    <<"{", HashField, ModelField>> \o embedding
        \o <<DimensionField(Len(embedding)), "}">>

\* json.load(f): the entry, None when the text is not one JSON document
JsonLoad(text) ==
    LET n == Len(text)
    IN  IF /\ n >= 5
           /\ text[1] = "{"
           /\ text[2] = HashField
           /\ text[3] = ModelField
           /\ \A k \in 4..(n - 2) : text[k] \in {"1", "2", "3", "4", "5"}
           /\ text[n - 1] \in {"d1", "d2", "dn"}
           /\ text[n] = "}"
        THEN Some([hash |-> text[2], model |-> text[3],
                   embedding |-> SubSeq(text, 4, n - 2)])
        ELSE None

\* EmbeddingCache.get (lines 60-94) on the file as it stands: the vector,
\* None for a miss; an exception of open or json.load is caught (line 92)
ReadEntry(file, enabled) ==
    IF ~enabled \/ file = None THEN None
    ELSE LET data == JsonLoad(file[1])
         IN  IF data = None THEN None
             ELSE IF data[1].hash = HashField /\ data[1].model = ModelField
                  THEN Some(data[1].embedding)
                  ELSE None

\* write(2) of a piece at an offset: the file grows, with a hole if the
\* offset lies beyond its end
WriteAt(text, offset, piece) ==
    [k \in 1..Max(Len(text), offset + Len(piece)) |->
        IF k > offset /\ k <= offset + Len(piece) THEN piece[k - offset]
        ELSE IF k <= Len(text) THEN text[k]
        ELSE Hole]

CcIdle ==
    /\ cc_file = None
    /\ cc_workers = <<>>
    /\ cc_got = None
    /\ cc_last = None

CcInit ==
    /\ cc_file = None
    /\ cc_workers = [w \in 1..NumWorkers |-> [pc |-> "idle", embedding |-> <<>>, offset |-> 0]]
    /\ cc_got = None
    /\ cc_last = None

\* EmbeddingCache.set, line 118: open(cache_path, 'w') creates the file or
\* cuts it to length 0
set_open ==
    \E w \in 1..Len(cc_workers), embedding \in CcVectors :
        /\ embedding_cache_enabled
        /\ cc_workers[w].pc = "idle"
        /\ cc_workers' = [cc_workers EXCEPT ![w] =
                             [pc |-> "open", embedding |-> embedding, offset |-> 0]]
        /\ cc_file' = Some(<<>>)
        /\ UNCHANGED <<cc_got, cc_last, sbVars, cacheVars, embVars, tbVars, sdVars,
                       acVars, stVars, qfVars, scVars, prVars, mwVars>>

\* line 119: the file object hands the next BufferSize characters of the
\* text to the file, at the worker's own offset
set_write ==
    \E w \in 1..Len(cc_workers) :
        LET c == cc_workers[w]
            text == JsonDump(c.embedding)
            piece == SubSeq(text, c.offset + 1, Min(c.offset + BufferSize, Len(text)))
        IN  /\ c.pc = "open"
            /\ c.offset < Len(text)
            /\ cc_file # None
            /\ cc_file' = Some(WriteAt(cc_file[1], c.offset, piece))
            /\ cc_workers' = [cc_workers EXCEPT ![w].offset = c.offset + Len(piece)]
            /\ UNCHANGED <<cc_got, cc_last, sbVars, cacheVars, embVars, tbVars, sdVars,
                           acVars, stVars, qfVars, scVars, prVars, mwVars>>

\* the with block of line 118 ends: the file is closed and set returns
set_close ==
    \E w \in 1..Len(cc_workers) :
        LET c == cc_workers[w]
        IN  /\ c.pc = "open"
            /\ c.offset = Len(JsonDump(c.embedding))
            /\ cc_workers' = [cc_workers EXCEPT ![w].pc = "closed"]
            /\ cc_last' = Some(c.embedding)
            /\ UNCHANGED <<cc_file, cc_got, sbVars, cacheVars, embVars, tbVars, sdVars,
                           acVars, stVars, qfVars, scVars, prVars, mwVars>>

\* EmbeddingCache.get by a worker, while sets are under way
get_concurrent ==
    /\ cc_workers # <<>>
    /\ cc_got' = ReadEntry(cc_file, embedding_cache_enabled)
    /\ UNCHANGED <<cc_file, cc_workers, cc_last, sbVars, cacheVars, embVars, tbVars,
                   sdVars, acVars, stVars, qfVars, scVars, prVars, mwVars>>

(***************************************************************************)
(* process_all_markdown_files  (src/processors/advanced_chunker.py)        *)
(***************************************************************************)
\* documents of the directory, one worker each
NumDocuments == 2
\* most lines of one of these documents
MaxMwLines == 2

MwLineKinds == { <<"#", " ", "A">>, <<"#", "#", " ", "B">>, <<"t">> }
MwTexts == {JoinLines(ls) : ls \in SeqsUpTo(MwLineKinds, MaxMwLines)} \ {<<>>}

\* the sections found for the segments of a text in a list of sections
SectionsFound(secs, text, chunks_text) ==
    [i \in 1..Len(chunks_text) |->
        SectionFound(secs, text, CharPosition(chunks_text, i))]

MwIdle == mw_workers = <<>>

\* process_all_markdown_files, lines 283-303: one AdvancedChunker, hence
\* one SectionDetector, is built and process_markdown_file is submitted to
\* the pool once per document
MwInit ==
    /\ mw_workers \in [1..NumDocuments ->
            [text : MwTexts, cut : {0, 1}, pc : {"start"}, chunks : {<<>>}, sections : {<<>>}]]
    /\ sd_text = <<>>
    /\ sections = <<>>
    /\ sd_pc = "idle"

\* process_markdown_file, line 74: self.section_detector.parse_document(text)
\* replaces the sections of the detector the workers share
worker_parse_document ==
    \E w \in 1..Len(mw_workers) :
        /\ mw_workers[w].pc = "start"
        /\ sections' = ParseDocument(mw_workers[w].text)
        /\ mw_workers' = [mw_workers EXCEPT ![w].pc = "parsed"]
        /\ UNCHANGED <<sd_text, sd_pc, sbVars, cacheVars, embVars, tbVars, acVars, stVars,
                       qfVars, scVars, prVars, ccVars>>

\* lines 137-168: the segments of the worker's text receive the section
\* that the detector finds at their position
worker_base_metadata ==
    \E w \in 1..Len(mw_workers) :
        LET c == mw_workers[w]
            chunks_text == CutText(c.text, c.cut * (Len(c.text) \div 2))
        IN  /\ c.pc = "parsed"
            /\ mw_workers' = [mw_workers EXCEPT
                   ![w].chunks = BaseChunks(chunks_text,
                                     SectionsFound(sections, c.text, chunks_text)),
                   ![w].pc = "annotated"]
            /\ UNCHANGED <<sdVars, sbVars, cacheVars, embVars, tbVars, acVars, stVars,
                           qfVars, scVars, prVars, ccVars>>

\* lines 200-209: the result holds self.section_detector.sections
worker_result ==
    \E w \in 1..Len(mw_workers) :
        /\ mw_workers[w].pc = "annotated"
        /\ mw_workers' = [mw_workers EXCEPT ![w].sections = sections,
                                            ![w].pc = "returned"]
        /\ UNCHANGED <<sdVars, sbVars, cacheVars, embVars, tbVars, acVars, stVars,
                       qfVars, scVars, prVars, ccVars>>

(***************************************************************************)
(* Specifications: one per component, the other components idle            *)
(***************************************************************************)
SbNext == create_smart_batches

InitBatcher == SbInit /\ CacheIdle /\ EmbIdle /\ TbIdle /\ SdIdle /\ AcIdle /\ StIdle /\ QfIdle /\ ScIdle /\ PrIdle /\ CcIdle /\ MwIdle

SpecBatcher == InitBatcher /\ [][SbNext]_vars

CacheNext == cache_get \/ cache_set \/ cache_clear \/ cache_tamper

InitCache == CacheInit /\ SbIdle /\ EmbIdle /\ TbIdle /\ SdIdle /\ AcIdle /\ StIdle /\ QfIdle /\ ScIdle /\ PrIdle /\ CcIdle /\ MwIdle

SpecCache == InitCache /\ [][CacheNext]_vars

EmbNext ==
    \/ embed_chunks_start
    \/ create_embeddings_start
    \/ create_embeddings_check
    \/ create_embeddings_fetch
    \/ emb_return

InitEmbed == EmbInit /\ CacheIdle /\ SbIdle /\ TbIdle /\ SdIdle /\ AcIdle /\ StIdle /\ QfIdle /\ ScIdle /\ PrIdle /\ CcIdle /\ MwIdle

SpecEmbed == InitEmbed /\ [][EmbNext]_vars

EmbFailInit ==
    /\ EmbInit
    /\ embedding_cache_enabled \in BOOLEAN
    /\ cache_files = [h \in CacheHashes |-> None]
    /\ cache_last_get = None
    /\ cache_written = [p \in CachePairs |-> None]
    /\ cache_purged = {}

EmbFailNext ==
    \/ embed_chunks_start
    \/ create_embeddings_start
    \/ create_embeddings_check
    \/ create_embeddings_fetch
    \/ create_embeddings_fail
    \/ emb_return
    \/ emb_raise

InitEmbedFail == EmbFailInit /\ SbIdle /\ TbIdle /\ SdIdle /\ AcIdle /\ StIdle /\ QfIdle /\ ScIdle /\ PrIdle /\ CcIdle /\ MwIdle

SpecEmbedFail == InitEmbedFail /\ [][EmbFailNext]_vars

PrNext ==
    \/ add_section_context_to_chunks
    \/ base_metadata_with_sections
    \/ augment_annotated
    \/ token_count_annotated
    \/ merge_annotated
    \/ filter_annotated
    \/ prioritize_chunks

InitAnnotate ==
    PrInit /\ SbIdle /\ CacheIdle /\ EmbIdle /\ TbIdle /\ AcIdle /\ StIdle /\ QfIdle /\ ScIdle /\ CcIdle /\ MwIdle

SpecAnnotate == InitAnnotate /\ [][PrNext]_vars

CcNext == set_open \/ set_write \/ set_close \/ get_concurrent

InitConcurrent ==
    CcInit /\ SbIdle /\ CacheIdle /\ EmbIdle /\ TbIdle /\ SdIdle /\ AcIdle /\ StIdle /\ QfIdle /\ ScIdle /\ PrIdle /\ MwIdle

SpecConcurrent == InitConcurrent /\ [][CcNext]_vars

MwNext == worker_parse_document \/ worker_base_metadata \/ worker_result

InitWorkers ==
    MwInit /\ SbIdle /\ CacheIdle /\ EmbIdle /\ TbIdle /\ AcIdle /\ StIdle /\ QfIdle /\ ScIdle /\ PrIdle /\ CcIdle

SpecWorkers == InitWorkers /\ [][MwNext]_vars

TbNext == rechunk_next_chunk \/ chunk_text_window \/ rechunk_return

InitTokenChunker == TbInit /\ SbIdle /\ CacheIdle /\ EmbIdle /\ SdIdle /\ AcIdle /\ StIdle /\ QfIdle /\ ScIdle /\ PrIdle /\ CcIdle /\ MwIdle

\* the interpreter runs the loops on: a step that can be taken is taken
SpecTokenChunker == InitTokenChunker /\ [][TbNext]_vars /\ WF_vars(TbNext)

SdNext == parse_document

InitSections == SdInit /\ SbIdle /\ CacheIdle /\ EmbIdle /\ TbIdle /\ AcIdle /\ StIdle /\ QfIdle /\ ScIdle /\ PrIdle /\ CcIdle /\ MwIdle

SpecSections == InitSections /\ [][SdNext]_vars

AcNext == adaptive_chunk_text

InitAdaptive == AcInit /\ SbIdle /\ CacheIdle /\ EmbIdle /\ TbIdle /\ SdIdle /\ StIdle /\ QfIdle /\ ScIdle /\ PrIdle /\ CcIdle /\ MwIdle

SpecAdaptive == InitAdaptive /\ [][AcNext]_vars

StNext ==
    \/ create_base_metadata
    \/ augment_stage
    \/ merge_stage
    \/ rechunk_stage_call
    \/ rechunk_next_chunk
    \/ chunk_text_window
    \/ rechunk_return
    \/ rechunk_stage_return

InitStages == StInit /\ SbIdle /\ CacheIdle /\ EmbIdle /\ TbIdle /\ SdIdle /\ AcIdle /\ QfIdle /\ ScIdle /\ PrIdle /\ CcIdle /\ MwIdle

SpecStages == InitStages /\ [][StNext]_vars

QfNext == score_chunk \/ filter_chunks

InitQuality ==
    QfInit /\ SbIdle /\ CacheIdle /\ EmbIdle /\ TbIdle /\ SdIdle /\ AcIdle /\ StIdle /\ ScIdle /\ PrIdle /\ CcIdle /\ MwIdle

SpecQuality == InitQuality /\ [][QfNext]_vars

ScNext == chunk_by_sections

InitSemantic ==
    ScInit /\ SbIdle /\ CacheIdle /\ EmbIdle /\ TbIdle /\ SdIdle /\ AcIdle /\ StIdle /\ QfIdle /\ PrIdle /\ CcIdle /\ MwIdle

SpecSemantic == InitSemantic /\ [][ScNext]_vars

DtNext == detect_content_type \/ adaptive_chunk_text

InitDetect == DtInit /\ SbIdle /\ CacheIdle /\ EmbIdle /\ TbIdle /\ SdIdle /\ StIdle /\ QfIdle /\ ScIdle /\ PrIdle /\ CcIdle /\ MwIdle

SpecDetect == InitDetect /\ [][DtNext]_vars

MgNext == create_base_metadata \/ merge_stage

InitMerge == MgInit /\ SbIdle /\ CacheIdle /\ EmbIdle /\ TbIdle /\ SdIdle /\ AcIdle /\ QfIdle /\ ScIdle /\ PrIdle /\ CcIdle /\ MwIdle

SpecMerge == InitMerge /\ [][MgNext]_vars

AugNext == create_base_metadata \/ augment_batch \/ embedding_optimized_stage

InitAugment == StInit /\ SbIdle /\ CacheIdle /\ EmbIdle /\ TbIdle /\ SdIdle /\ AcIdle /\ QfIdle /\ ScIdle /\ PrIdle /\ CcIdle /\ MwIdle

SpecAugment == InitAugment /\ [][AugNext]_vars

(***************************************************************************)
(* Properties of the SmartBatcher                                          *)
(***************************************************************************)
\* the token counts of the members of a batch
BatchCounts(batch) == [j \in 1..Len(batch) |-> batch[j].token_count[1]]

BatchSum(batch) == SumSeq(BatchCounts(batch))

\* a batch made of one segment that alone exceeds the ceiling
IsOverflowSingleton(batch) ==
    Len(batch) = 1 /\ batch[1].token_count[1] > max_tokens_per_batch

\* C2: once create_smart_batches has returned, every batch with more than
\* one member sums to at most max_tokens_per_batch, a batch above the ceiling
\* is a singleton whose segment alone exceeds it, and every input segment
\* is a member of exactly one batch.
C2_BatchesBoundedAndPartition ==
    sb_pc = "done" =>
        /\ \A k \in 1..Len(sb_batches) :
              /\ Len(sb_batches[k]) > 1 => BatchSum(sb_batches[k]) <= max_tokens_per_batch
              /\ BatchSum(sb_batches[k]) > max_tokens_per_batch
                    => IsOverflowSingleton(sb_batches[k])
        /\ \A i \in 1..Len(sb_chunks) :
              Cardinality({<<k, j>> \in (1..Len(sb_batches)) \X (1..MaxChunks) :
                              /\ j <= Len(sb_batches[k])
                              /\ sb_batches[k][j] = sb_chunks[i]}) = 1
        /\ Len(Flatten(sb_batches)) = Len(sb_chunks)

\* C2 witness: a returned packing holding a batch of several members next to
\* an overflow singleton
C2_Witness ==
    /\ sb_pc = "done"
    /\ \E k \in 1..Len(sb_batches) : Len(sb_batches[k]) > 1
    /\ \E k \in 1..Len(sb_batches) : IsOverflowSingleton(sb_batches[k])

\* C3: the packing is the single forward greedy pass: the batches
\* concatenated give the input in its order, no batch is empty, a segment
\* above the ceiling is alone in its batch, and a batch ends only where the
\* next segment is above the ceiling, or the batch is an overflow singleton,
\* or adding the next segment would exceed the ceiling; token counts
\* [100, 100, 900] under ceiling 200 give [[100, 100], [900]].
C3_GreedyForwardPass ==
    sb_pc = "done" =>
        /\ Flatten(sb_batches) = sb_chunks
        /\ \A k \in 1..Len(sb_batches) :
              /\ sb_batches[k] # <<>>
              /\ \A j \in 1..Len(sb_batches[k]) :
                    sb_batches[k][j].token_count[1] > max_tokens_per_batch
                        => Len(sb_batches[k]) = 1
        /\ \A k \in 1..(Len(sb_batches) - 1) :
              \/ sb_batches[k + 1][1].token_count[1] > max_tokens_per_batch
              \/ IsOverflowSingleton(sb_batches[k])
              \/ BatchSum(sb_batches[k]) + sb_batches[k + 1][1].token_count[1]
                    > max_tokens_per_batch
        /\ (sb_chunks = Scenario4Chunks /\ max_tokens_per_batch = 200)
              => [k \in 1..Len(sb_batches) |-> BatchCounts(sb_batches[k])]
                    = <<(<<100, 100>>), (<<900>>)>>

\* C3 witness: the scenario's input packed, a running batch flushed before
\* the oversized segment
C3_Witness ==
    /\ sb_pc = "done"
    /\ sb_chunks = Scenario4Chunks
    /\ Len(sb_batches) = 2

(***************************************************************************)
(* Properties of the EmbeddingCache                                        *)
(***************************************************************************)
\* C4: with the cache enabled, a get for a pair whose last set wrote v (no
\* set for the same pair since) returns v, the vector of the latest set.
C4_GetReturnsLastSet ==
    (embedding_cache_enabled /\ cache_last_get # None) =>
        LET g == cache_last_get[1]
        IN  cache_written[<<g.content, g.model>>] # None
                => g.result = cache_written[<<g.content, g.model>>]

\* C5: a get that finds an entry recording another hash or model returns a
\* miss and leaves no entry under the key; from then on, until the pair is
\* set again, a get for the pair is a miss.
C5_MismatchPurgedAndMiss ==
    /\ cache_last_get # None =>
          LET g == cache_last_get[1]
          IN  g.outcome = "purge" =>
                /\ g.result = None
                /\ cache_files[ContentHash(g.content, g.model)] = None
    /\ \A p \in cache_purged :
          GetResult(cache_files, embedding_cache_enabled, p[1], p[2]) = None

\* C5 witness: a get has just purged an entry whose model field was changed
C5_Witness ==
    /\ cache_last_get # None
    /\ cache_last_get[1].outcome = "purge"
    /\ <<cache_last_get[1].content, cache_last_get[1].model>> \in cache_purged
    /\ \E h \in CacheHashes : cache_files[h] # None

(***************************************************************************)
(* Properties of create_embeddings / embed_chunks                          *)
(***************************************************************************)
\* C6: with the cache enabled, over any sequence of create_embeddings and
\* embed_chunks calls the embedding service computes the vector of a
\* (text, model) pair at most once.
C6_AtMostOneComputation ==
    embedding_cache_enabled => \A t \in CacheTexts : api_computed[t] <= 1

\* the job of batch w ended with its vectors
Succeeded(w) == emb_calls[w].pc = "done"

\* C22: when embed_chunks raises for one batch, the vectors of every sibling
\* batch that succeeded are still available to the caller, so that only
\* the failing batch has to be computed again.
C22_SiblingVectorsKept ==
    (emb_pc = "raised" /\ emb_error # None) =>
        \A w \in 1..Len(emb_calls) :
            Succeeded(w) =>
                \A k \in 1..Len(emb_calls[w].texts) :
                    GetResult(cache_files, embedding_cache_enabled,
                              emb_calls[w].texts[k], EmbeddingModel)
                        = Some(SortedEmbeddings(emb_calls[w].embeddings)[k])

(***************************************************************************)
(* Properties of the TokenBasedChunker                                     *)
(***************************************************************************)
\* C7: every segment returned by rechunk_with_tokens has a token count of
\* at most max_tokens_per_chunk, whatever chunk_size_tokens is; a segment
\* already within the budget is returned with its content unchanged and
\* its token_count attached.
C7_RechunkedWithinBudget ==
    \A r \in 1..Len(rechunked) :
        /\ rechunked[r].token_count # None
        /\ rechunked[r].token_count[1] <= max_tokens_per_chunk
        /\ get_token_count(rechunked[r].content) <= max_tokens_per_chunk
        /\ \A k \in 1..Len(tb_chunks) :
              (rechunked[r].chunk_index = tb_chunks[k].chunk_index)
                  => /\ rechunked[r].content = tb_chunks[k].content
                     /\ rechunked[r].token_count
                            = Some(get_token_count(tb_chunks[k].content))

\* C8: chunk_text terminates for every token stream and every pair of
\* chunk_size_tokens and chunk_overlap_tokens, so rechunk_with_tokens
\* always returns.
C8_ChunkTextTerminates == <>(tb_pc = "done")

(***************************************************************************)
(* Properties of the SectionDetector                                       *)
(***************************************************************************)
\* the sections reached from section i through the children lists
RECURSIVE Descendants(_, _)
Descendants(secs, i) ==
    LET kids == {secs[i].children[k] : k \in 1..Len(secs[i].children)}
    IN  kids \cup UNION {Descendants(secs, c) : c \in kids}

\* C10: after parse_document the line range of every section contains the
\* range of each of its descendants, and the ranges of two sections with
\* the same parent do not overlap.
C10_RangesNestAndSiblingsDisjoint ==
    sd_pc = "parsed" =>
        /\ \A i \in 1..Len(sections) : \A d \in Descendants(sections, i) :
              /\ sections[i].start_line <= sections[d].start_line
              /\ sections[d].end_line <= sections[i].end_line
        /\ \A i, j \in 1..Len(sections) :
              (i < j /\ sections[i].parent = sections[j].parent)
                  => \/ sections[i].end_line < sections[j].start_line
                     \/ sections[j].end_line < sections[i].start_line

(***************************************************************************)
(* Properties of the AdaptiveChunker                                       *)
(***************************************************************************)
\* C9: chunk_text returns for every text and content type, and every piece
\* it returns is at most chunk_size characters long, also for a text with
\* none of the separators of the profile.
C9_PiecesWithinChunkSize ==
    ac_pc = "chunked" =>
        \A k \in 1..Len(ac_pieces) :
            Len(ac_pieces[k]) <= ConfigOf(ac_type).chunk_size

(***************************************************************************)
(* Properties of the stages                                                *)
(***************************************************************************)
\* C1: after each stage that creates or rewrites segments (base metadata,
\* augment_chunk, merge_chunks, rechunk_with_tokens) the chunk_size of every
\* segment of the list is the length of its content.
C1_ChunkSizeIsContentLength ==
    (st_pc = "ready" /\ st_stages # <<>>) =>
        \A k \in 1..Len(st_chunks) : st_chunks[k].chunk_size = Len(st_chunks[k].content)

(***************************************************************************)
(* Properties of the ChunkQualityFilter                                    *)
(***************************************************************************)
\* the chunk_index of each member of a list of segments
IndexesOf(chunks) == [k \in 1..Len(chunks) |-> chunks[k].chunk_index[1]]

IsAscending(seq) == \A i, j \in 1..Len(seq) : i < j => seq[i] < seq[j]

\* C11: filter_chunks returns two lists that partition the input: every
\* segment of the input is in exactly one of them, each list is in input
\* order, a segment is kept exactly when its score is at least min_quality,
\* and every returned segment carries its score as quality_score.
C11_FilterPartitions ==
    qf_pc = "filtered" =>
        LET out == kept_chunks \o filtered_chunks
        IN  /\ Len(out) = Len(qf_chunks)
            /\ \A k \in 1..Len(qf_chunks) :
                  Cardinality({j \in 1..Len(out) : out[j].chunk_index = <<k - 1>>}) = 1
            /\ IsAscending(IndexesOf(kept_chunks))
            /\ IsAscending(IndexesOf(filtered_chunks))
            /\ \A j \in 1..Len(out) :
                  LET k == out[j].chunk_index[1] + 1
                  IN  /\ out[j].content = qf_chunks[k].content
                      /\ out[j].quality_score # None
                      /\ out[j].quality_score = qf_chunks[k].quality_score
                      /\ (j <= Len(kept_chunks)) <=> (out[j].quality_score[1] >= min_quality)

\* a segment whose score is the threshold is kept while another is rejected
C11_Witness ==
    /\ qf_pc = "filtered"
    /\ filtered_chunks # <<>>
    /\ \E j \in 1..Len(kept_chunks) :
          /\ kept_chunks[j].quality_score = Some(min_quality)
          /\ min_quality > 0

\* the product of the tenths of a set of factors
RECURSIVE ProductOf(_)
ProductOf(factors) ==
    IF factors = {} THEN 1
    ELSE LET f == CHOOSE g \in factors : TRUE
         IN  f.tenths * ProductOf(factors \ {f})

RECURSIVE PowerOfTen(_)
PowerOfTen(n) == IF n = 0 THEN 1 ELSE 10 * PowerOfTen(n - 1)

\* the score is 1.0 times the factors of the set (at most seven of them)
IsProductOf(score, factors) ==
    score = (ScoreOne \div PowerOfTen(Cardinality(factors))) * ProductOf(factors)

\* the seven penalties of the statement whose condition holds
ListedFactors(content, filter, noise) ==
    LET n == Len(content)
        words == WordCount(content)
    IN  {f \in { [name |-> "short", tenths |-> 3, holds |-> n < filter.min_length],
                 [name |-> "long", tenths |-> 7, holds |-> n > filter.max_length],
                 [name |-> "few words", tenths |-> 5, holds |-> words < filter.min_words],
                 [name |-> "special", tenths |-> 4,
                  holds |-> noise /\ SpecialCount(content) * 10 > 3 * n],
                 [name |-> "upper", tenths |-> 6,
                  holds |-> CountChars(content, UpperLetters) * 2 > n /\ n < 200],
                 [name |-> "repetition", tenths |-> 3,
                  holds |-> words > 0 /\ UniqueWordCount(content) * 10 < 3 * words],
                 [name |-> "blank lines", tenths |-> 7, holds |-> EmptyLines(content) > 3] } :
            f.holds}

\* the penalty of the code that the statement does not list
NonAsciiFactor(content) ==
    IF CountChars(content, {NonAsciiLetter}) * 2 > Len(content) /\ Len(content) < 100
    THEN {[name |-> "non-ascii", tenths |-> 8, holds |-> TRUE]}
    ELSE {}

\* C12 as stated: the score of a segment is 1.0 times exactly those of the
\* seven listed penalties whose condition holds, and nothing else changes
\* it.
C12_ScoreIsListedPenalties ==
    qf_pc = "scored" =>
        IsProductOf(qf_score[1], ListedFactors(qf_chunks[1].content, qf_filter, TRUE))

\* C12 amended: an empty content scores 0; otherwise the score is 1.0 times
\* the listed penalties whose condition holds, the special-character one
\* only when filter_noise is set, times 0.8 when more than half of the
\* characters of a content shorter than 100 are outside ASCII.
C12_ScoreIsPenaltiesOfCode ==
    qf_pc = "scored" =>
        LET content == qf_chunks[1].content
        IN  IF content = <<>> THEN qf_score = Some(0)
            ELSE /\ qf_score[1] \in 0..ScoreOne
                 /\ IsProductOf(qf_score[1],
                        ListedFactors(content, qf_filter, qf_filter.filter_noise)
                            \cup NonAsciiFactor(content))

\* a score compounded of the non-ASCII penalty and of listed ones
C12_Witness ==
    /\ qf_pc = "scored"
    /\ NonAsciiFactor(qf_chunks[1].content) # {}
    /\ Cardinality(ListedFactors(qf_chunks[1].content, qf_filter,
                                 qf_filter.filter_noise)) >= 2
    /\ qf_score[1] > 0

(***************************************************************************)
(* Properties of the augmentation                                          *)
(***************************************************************************)
\* a step of augment_batch or of the embedding_optimized rewrite
AugmentStep ==
    /\ st_stages' # st_stages
    /\ st_stages'[Len(st_stages')] \in {"augment", "optimize"}

\* C13: after augment_chunk, and after the embedding_optimized rewrite, the
\* original_content of every segment, also of one that was augmented
\* before, is exactly the content the segment had immediately before the
\* call.
C13_OriginalIsContentBeforeCall ==
    [][AugmentStep =>
        \A k \in 1..Len(st_chunks) :
            st_chunks'[k].original_content = Some(st_chunks[k].content)]_vars

\* C13 as the code has it: augment_chunk records the content before the
\* call only on a segment that carries no original_content and otherwise
\* keeps the one it carries; the embedding_optimized rewrite always records
\* the content before the rewrite.
C13_OriginalKeptOnceSet ==
    [][AugmentStep =>
        \A k \in 1..Len(st_chunks) :
            st_chunks'[k].original_content =
                IF /\ st_stages'[Len(st_stages')] = "augment"
                   /\ st_chunks[k].original_content # None
                THEN st_chunks[k].original_content
                ELSE Some(st_chunks[k].content)]_vars

\* a segment augmented twice with a header each time: its original_content
\* is still the raw piece, which is no longer the content before the call
C13_Witness ==
    /\ StageCount("augment") = 2
    /\ st_chunks # <<>>
    /\ st_chunks[1].original_content = Some(st_pieces[1])
    /\ Len(st_chunks[1].content) > Len(st_pieces[1]) + 20

(***************************************************************************)
(* Properties of the ChunkMerger                                           *)
(***************************************************************************)
\* the chunk_index values of the input segments an output segment is made of
SourcesOf(chunk) == IF chunk.merged THEN chunk.merged_from ELSE chunk.chunk_index

\* merge_chunks has run on the segments of create_base_metadata
Merged == st_pc = "ready" /\ st_stages = <<"base", "merge">>

C15_FusionConditions ==
    Merged =>
        LET base == BaseChunks(st_pieces, st_section)
        IN  \A k \in 1..Len(st_chunks) :
                LET chunk == st_chunks[k]
                IN  IF chunk.merged
                    THEN
                        LET first == base[chunk.merged_from[1] + 1]
                            successor == base[chunk.merged_from[2] + 1]
                        IN  /\ Len(chunk.merged_from) = 2
                            /\ chunk.merged_from[2] = chunk.merged_from[1] + 1
                            /\ Len(first.content) < st_merger.min_chunk_size
                            /\ chunk.content =
                                  first.content \o <<"\n", "\n">> \o successor.content
                            /\ Len(chunk.content) <= st_merger.max_chunk_size
                            /\ chunk.section_title =
                                  IF successor.section_title # None
                                  THEN successor.section_title ELSE first.section_title
                            /\ chunk.section_level =
                                  IF successor.section_level # None
                                  THEN successor.section_level ELSE first.section_level
                    ELSE chunk = base[chunk.chunk_index[1] + 1]

\* an undersized segment whose fusion would exceed the maximum is emitted
\* on its own, and the next one is fused with a successor of another
\* section, whose title it takes
C15_Witness ==
    /\ Merged
    /\ Len(st_pieces) = 3
    /\ Len(st_chunks) = 2
    /\ ~st_chunks[1].merged
    /\ Len(st_pieces[1]) < st_merger.min_chunk_size
    /\ Len(st_pieces[1]) + 2 + Len(st_pieces[2]) > st_merger.max_chunk_size
    /\ st_chunks[2].merged
    /\ st_section[2] = Some(SectionS)
    /\ st_section[3] = Some(SectionT)
    /\ st_chunks[2].section_title = Some(<<"T">>)
    /\ st_chunks[2].section_level = Some(2)

(***************************************************************************)
(* Properties of the ContentTypeDetector                                   *)
(***************************************************************************)
\* detect_content_type has run on ac_text
Detected == ac_pc \in {"ready", "chunked"}

\* C16: the detected type is the result of the ordered decision on the
\* three scores: narrative when the greatest is below 0.2; else table when
\* the table score is at least 0.3; else list when the list score is at
\* least 0.3; else code when the code score is at least 0.3; else mixed
\* when the greatest is below 0.5; else the type of the greatest score.
\* The text of the two rows '| a | b |' and '| c | d |' is a table.
C16_OrderedDecision ==
    Detected =>
        LET t == score_table(ac_text)
            l == score_list(ac_text)
            c == score_code(ac_text)
            m == MaxScore(ac_text)
            low == Less(m, Fraction(2, 10))
            isTable == AtLeast(t, Fraction(3, 10))
            isList == AtLeast(l, Fraction(3, 10))
            isCode == AtLeast(c, Fraction(3, 10))
        IN  /\ low => ac_type = "narrative"
            /\ (~low /\ isTable) => ac_type = "table"
            /\ (~low /\ ~isTable /\ isList) => ac_type = "list"
            /\ (~low /\ ~isTable /\ ~isList /\ isCode) => ac_type = "code"
            /\ (~low /\ ~isTable /\ ~isList /\ ~isCode /\ Less(m, Fraction(5, 10)))
                  => ac_type = "mixed"
            /\ (~low /\ ~isTable /\ ~isList /\ ~isCode /\ ~Less(m, Fraction(5, 10)))
                  => \/ ac_type = "table" /\ t = m
                     \/ ac_type = "list" /\ l = m
                     \/ ac_type = "code" /\ c = m
            /\ ac_text = TwoRows => ac_type = "table"

\* the two rows have been classified as a table
C16_Witness ==
    /\ Detected
    /\ ac_text = TwoRows
    /\ ac_type = "table"

\* 0 <= score <= 1
InUnit(score) == AtLeast(score, Fraction(0, 1)) /\ ~Less(Fraction(1, 1), score)

\* C17: each of the three scores of the text lies in [0, 1]; the table
\* score, lines with two pipes or two tabs over the non-blank lines, never
\* exceeds 1, also with lines made of tabs only.
C17_ScoresInUnitInterval ==
    Detected =>
        /\ InUnit(score_table(ac_text))
        /\ InUnit(score_list(ac_text))
        /\ InUnit(score_code(ac_text))

(***************************************************************************)
(* Properties of the SemanticChunker                                       *)
(***************************************************************************)
\* the positions of the title lines of the text
TitleLines(text) ==
    LET lines == SplitLines(text, <<>>)
    IN  {k \in 1..Len(lines) : IsTitleLine(lines[k])}

\* the text is a title line, a body, a second title line and a body
IsTwoSections(text) == Cardinality(TitleLines(text)) = 2 /\ 1 \in TitleLines(text)

SecondTitleLine(text) == CHOOSE k \in TitleLines(text) : k # 1

\* lines a to b of the text, joined and stripped
LinesOf(text, a, b) == Strip(JoinLines(SubSeq(SplitLines(text, <<>>), a, b)))

\* the block of the first section and the block of the second: the title
\* line and the body
FirstBlock(text) == LinesOf(text, 1, SecondTitleLine(text) - 1)
SecondBlock(text) ==
    LinesOf(text, SecondTitleLine(text), Len(SplitLines(text, <<>>)))

\* the title a title line gives: the line without its '#' marks
TitleOf(line) ==
    LET stripped == Strip(line)
    IN  Strip(SubSeq(stripped, PrefixIn(stripped, {"#"}) + 1, Len(stripped)))

\* C18: for a document of a title line A, a body shorter than the minimum
\* size, a title line B and its body, chunk_by_sections returns exactly one
\* piece; its title is "A / B", the two section titles joined by " / ", and
\* its content is the two blocks joined by a blank line.
C18_ShortSectionFusedAsAB ==
    (/\ sc_pc = "done"
     /\ IsTwoSections(sc_text)
     /\ Len(LinesOf(sc_text, 2, SecondTitleLine(sc_text) - 1)) < sc_min_chunk_size)
    =>
        LET lines == SplitLines(sc_text, <<>>)
        IN  sc_chunks =
                << [title |-> TitleOf(lines[1]) \o <<" ", "/", " ">>
                                \o TitleOf(lines[SecondTitleLine(sc_text)]),
                    content |-> FirstBlock(sc_text) \o <<"\n", "\n">>
                                    \o SecondBlock(sc_text)] >>

\* C18 as the code has it: when the first block, title line included, is
\* shorter than the minimum size, the one piece returned has for title the
\* two title lines, '#' marks included, joined by " / ", and for content
\* the two blocks joined by a blank line.
C18_ShortBlockFusedAsTitleLines ==
    (/\ sc_pc = "done"
     /\ IsTwoSections(sc_text)
     /\ Len(FirstBlock(sc_text)) < sc_min_chunk_size)
    =>
        LET lines == SplitLines(sc_text, <<>>)
        IN  sc_chunks =
                << [title |-> Strip(lines[1]) \o <<" ", "/", " ">>
                                \o Strip(lines[SecondTitleLine(sc_text)]),
                    content |-> FirstBlock(sc_text) \o <<"\n", "\n">>
                                    \o SecondBlock(sc_text)] >>

\* the scenario with a minimum size above the length of its first block
C18_Witness ==
    /\ sc_pc = "done"
    /\ sc_text = ScenarioText
    /\ Len(FirstBlock(sc_text)) < sc_min_chunk_size
    /\ Len(sc_chunks) = 1
    /\ sc_chunks[1].title = <<"#", " ", "A", " ", "/", " ", "#", "#", " ", "B">>

\* C19: no piece returned by chunk_by_sections is longer than
\* max_chunk_size, an oversized block that follows an undersized one and a
\* piece made by fusing an undersized block with its neighbour included.
C19_PiecesWithinMaximum ==
    sc_pc = "done" =>
        \A k \in 1..Len(sc_chunks) : Len(sc_chunks[k].content) <= sc_max_chunk_size

\* C20: chunk_by_sections drops no content: every non-blank line of the
\* text appears in some piece returned, so a text without title line, the
\* text before the first title line and a single undersized section still
\* yield output.  (A line longer than max_chunk_size, which the re-split
\* may cut, is not looked at.)
C20_NoContentDropped ==
    sc_pc = "done" =>
        LET lines == SplitLines(sc_text, <<>>)
        IN  \A k \in 1..Len(lines) :
                (Strip(lines[k]) # <<>> /\ Len(lines[k]) <= sc_max_chunk_size)
                    => \E j \in 1..Len(sc_chunks) :
                          FindSep(sc_chunks[j].content, Strip(lines[k])) # 0

(***************************************************************************)
(* Properties of the configuration                                        *)
(***************************************************************************)
\* C21: a configuration whose overlap is not strictly smaller than its size
\* is rejected when the chunker is constructed: no call of chunk_text on a
\* document runs with chunk_overlap_tokens >= chunk_size_tokens.
C21_InvalidConfigNeverRuns ==
    tb_pc = "chunk_text" => chunk_overlap_tokens < chunk_size_tokens

(***************************************************************************)
(* Properties of documents without headings                                *)
(***************************************************************************)
\* the document has no heading
NoHeadings == sections = <<>> /\ sd_pc = "parsed"

\* C23: for a document without headings parse_document returns the empty
\* list, every lookup returns no section, and a segment annotated with no
\* section passes the merger, the quality filter, the prioritizer and the
\* augmenter without an exception.
C23_NoSectionIsNoError ==
    NoHeadings =>
        /\ \A line_num \in 0..MaxPrLines :
              /\ get_section_at_line(sections, line_num) = 0
              /\ get_deepest_section_at_line(sections, line_num) = 0
        /\ \A position \in 0..Len(sd_text) :
              get_section_for_text_position(sections, sd_text, position) = 0
        /\ pr_error = None

(***************************************************************************)
(* Properties of the cache under concurrent workers                        *)
(***************************************************************************)
\* the vectors some set was called with
WrittenVectors ==
    {cc_workers[w].embedding : w \in {v \in 1..Len(cc_workers) : cc_workers[v].pc # "idle"}}

AllSetsFinished ==
    /\ cc_workers # <<>>
    /\ \A w \in 1..Len(cc_workers) : cc_workers[w].pc = "closed"

\* C24: under every interleaving of the gets and sets of one key, a get
\* returns a miss or a whole vector that some set wrote, and once every
\* set has finished a get returns the vector of the set that finished last.
C24_GetReturnsWrittenVector ==
    /\ cc_got # None => cc_got[1] \in WrittenVectors
    /\ AllSetsFinished => ReadEntry(cc_file, embedding_cache_enabled) = cc_last

(***************************************************************************)
(* Properties of process_all_markdown_files                                *)
(***************************************************************************)
\* C25: under every interleaving of the workers, the segments of a document
\* are annotated with the sections parsed from that document, and the
\* 'sections' of its result are the sections parsed from it.
C25_SectionsOfOwnDocument ==
    \A w \in 1..Len(mw_workers) :
        LET c == mw_workers[w]
            chunks_text == CutText(c.text, c.cut * (Len(c.text) \div 2))
            own == ParseDocument(c.text)
        IN  /\ c.pc \in {"annotated", "returned"} =>
                  c.chunks = BaseChunks(chunks_text, SectionsFound(own, c.text, chunks_text))
            /\ c.pc = "returned" => c.sections = own

(***************************************************************************)
(* Properties of the parents that parse_document assigns                   *)
(***************************************************************************)
\* the closest section before section i of a level strictly smaller than
\* its own, 0 for none
ClosestShallower(secs, i) ==
    LET before == {j \in 1..(i - 1) : secs[j].level < secs[i].level}
    IN  IF before = {} THEN 0
        ELSE CHOOSE j \in before : \A k \in before : k <= j

\* the sections whose parent is section j, in document order
RECURSIVE ChildrenInOrder(_, _, _)
ChildrenInOrder(secs, j, i) ==
    IF i > Len(secs) THEN <<>>
    ELSE (IF secs[i].parent = j THEN <<i>> ELSE <<>>) \o ChildrenInOrder(secs, j, i + 1)

\* current_sections at the moment the heading of section i has been inserted
MapAfterInsertion(text, secs, i) ==
    LET lines == SplitLines(text, <<>>)
    IN  ParseState(SubSeq(lines, 1, secs[i].start_line + 1), 0, <<>>,
                   [l \in 1..6 |-> 0]).current_sections

\* C26: the parent parse_document gives a heading of depth D is the closest
\* preceding heading of a depth strictly smaller than D, none if there is
\* none; after the insertion the map of current sections holds the heading
\* at depth D and nothing at a depth above D; and the children list of every
\* section holds the sections it is the parent of, in document order.
C26_ParentIsClosestShallower ==
    sd_pc = "parsed" =>
        \A i \in 1..Len(sections) :
            /\ sections[i].parent = ClosestShallower(sections, i)
            /\ LET map == MapAfterInsertion(sd_text, sections, i)
               IN  /\ map[sections[i].level] = i
                   /\ \A l \in 1..6 : l > sections[i].level => map[l] = 0
            /\ sections[i].children = ChildrenInOrder(sections, i, 1)

\* a heading whose parent lies two depths above it, after a deeper heading
\* was dropped from the map, under a parent with two children
C26_Witness ==
    /\ sd_pc = "parsed"
    /\ \E i, j \in 1..Len(sections) :
          /\ sections[i].parent = j
          /\ sections[i].level >= sections[j].level + 2
    /\ \E i, j \in 1..Len(sections) :
          /\ i < j
          /\ sections[i].level > sections[j].level
          /\ sections[j].parent # 0
    /\ \E j \in 1..Len(sections) : Len(sections[j].children) = 2

(***************************************************************************)
(* Properties of the order of the stages                                   *)
(***************************************************************************)
\* C27: the stages touch the segments of a document in the order raw
\* segmentation, base metadata, quality filter and merger, prioritizer,
\* contextual augmentation, token counts: once the augmenter has rewritten
\* the segments, neither the merger nor the quality filter nor the
\* prioritizer runs on them.
C27_AugmentationAfterMergeFilterPriority ==
    \A i, j \in 1..Len(pr_stages) :
        (i < j /\ pr_stages[i] = "augment")
            => pr_stages[j] \notin {"merge", "filter", "prioritize"}

\* C28: a token_count in the metadata of a segment of the list that
\* ChunkingService.chunk hands on is the token count of the segment's
\* content, also for a segment the merger fused from two.
C28_TokenCountOfCurrentContent ==
    (pr_pc = "annotated" /\ pr_error = None) =>
        \A k \in 1..Len(pr_chunks) :
            pr_chunks[k].token_count # None
                => pr_chunks[k].token_count[1] = get_token_count(pr_chunks[k].content)

(***************************************************************************)
(* Properties of the cache keys                                            *)
(***************************************************************************)
\* C29: operations on different (model, text) pairs are independent, no two
\* pairs sharing a key: the vector last set for a pair, with no clear and no
\* outside change of its file since, is what a get for the pair returns,
\* whatever gets and sets were made for other pairs in between.
C29_PairsAreIndependent ==
    embedding_cache_enabled =>
        \A pair \in CachePairs :
            cache_written[pair] # None
                => GetResult(cache_files, embedding_cache_enabled, pair[1], pair[2])
                      = cache_written[pair]

(***************************************************************************)
(* Properties of the result of embed_chunks                                *)
(***************************************************************************)
\* C30: for every list of chunks, every mix of cache hits and misses, every
\* batch size and every order in which the batches run, embed_chunks returns
\* one enriched chunk per input chunk, in input order, and the embedding of
\* the i-th is the vector of the i-th chunk's content; create_embeddings
\* returns the vectors of its texts in the order of the texts.
C30_OwnVectorInInputOrder ==
    /\ emb_pc = "returned" =>
          /\ Len(emb_result) = Len(emb_texts)
          /\ \A i \in 1..Len(emb_result) :
                /\ emb_result[i].content = emb_texts[i]
                /\ emb_result[i].embedding = ServiceVector(emb_texts[i])
    /\ emb_pc = "vectors" =>
          /\ Len(emb_result) = Len(emb_texts)
          /\ \A i \in 1..Len(emb_result) :
                emb_result[i] = ServiceVector(emb_texts[i])
    /\ emb_pc = "raised" => \E w \in 1..Len(emb_calls) : emb_calls[w].pc = "failed"

\* the same for the calls with at least one chunk
NonEmptyOwnVectorInInputOrder ==
    emb_texts # <<>> => C30_OwnVectorInInputOrder

\* a call of embed_chunks has returned the chunks of more than one batch,
\* with two different texts of which one was computed by an earlier call only
MixedCallReturned ==
    /\ emb_pc = "returned"
    /\ Len(emb_result) > emb_batch_size
    /\ \E i, j \in 1..Len(emb_texts) : emb_texts[i] # emb_texts[j]
    /\ \A t \in CacheTexts : api_computed[t] = 1

====
